---- MODULE Spec2Model ----
(***************************************************************************)
(* Model of CriAudioTools: the @UTF table codec (src/cri_utf.py: UTFTable, *)
(* UTFTableBuilder) and the AFS2 archive codec (src/awb.py: AWB,           *)
(* AWBBuilder).                                                            *)
(*                                                                         *)
(* Representation of Python values:                                        *)
(*   bytes / bytearray  a sequence of integers 0..255                      *)
(*   str                a sequence of code points                          *)
(*   int                an integer (TLC integers are 32-bit, so every      *)
(*                      number of the model stays below 2^31)              *)
(*   float              the integer of its IEEE-754 bit pattern            *)
(*   dict               a record with the dict's keys                      *)
(*   list               a sequence                                         *)
(*   an outcome         [st |-> "ok", ...], or [st |-> "error", err |-> e] *)
(*                      for a raised exception, or [st |-> "hang"] for a   *)
(*                      call that never returns                            *)
(***************************************************************************)
EXTENDS Integers, Sequences, FiniteSets, TLC

(***************************************************************************)
(* Bounds of the model.                                                    *)
(***************************************************************************)
\* most columns of a table drawn as input
MaxColumns == 2
\* most rows of a table drawn as input
MaxRows == 2
\* most sub-files of an archive drawn as input
MaxSubfiles == 2

(***************************************************************************)
(* Byte-level helpers: stream reads, struct.pack / struct.unpack, str      *)
(* encode / decode.                                                        *)
(***************************************************************************)
Min(a, b) == IF a < b THEN a ELSE b

Max(a, b) == IF a > b THEN a ELSE b

Err(e) == [st |-> "error", err |-> e]

\* a local name bound to the result of one call: Body of that result
With(value, Body(_)) == Body(value)

\* bytes(n) / bytearray(n): n zero bytes
Zeros(n) == [i \in 1..n |-> 0]

Pow256(k) == CASE k = 0 -> 1 [] k = 1 -> 256 [] k = 2 -> 65536 [] k = 3 -> 16777216

\* stream.seek(pos); stream.read(n): the bytes at pos .. pos+n-1 that exist
\* (a read at or past the end returns fewer bytes, or none)
StreamRead(stream, pos, n) ==
    IF n <= 0 \/ pos >= Len(stream) THEN <<>>
    ELSE SubSeq(stream, pos + 1, Min(pos + n, Len(stream)))

\* the format characters of the struct module that the codecs use, with the
\* packed size of each; "f" and "d" values are carried as their bit patterns
FormatSize(c) ==
    CASE c \in {"B", "b"} -> 1
      [] c \in {"H", "h"} -> 2
      [] c \in {"I", "i", "f"} -> 4
      [] c \in {"Q", "q", "d"} -> 8

FormatSigned(c) == c \in {"b", "h", "i", "q"}

\* the values struct.pack accepts for a format character (struct.error
\* otherwise); the upper ends 2^32 - 1 and 2^64 - 1 lie beyond the model's
\* integers
FormatAccepts(c, v) ==
    CASE c = "B" -> v >= 0 /\ v <= 255
      [] c = "b" -> v >= -128 /\ v <= 127
      [] c = "H" -> v >= 0 /\ v <= 65535
      [] c = "h" -> v >= -32768 /\ v <= 32767
      [] c \in {"I", "Q", "f", "d"} -> v >= 0
      [] c \in {"i", "q"} -> TRUE

\* byte k (0 = least significant) of the two's complement of v
ByteOf(v, k) ==
    IF k > 3 THEN (IF v < 0 THEN 255 ELSE 0)
    ELSE IF v >= 0 THEN (v \div Pow256(k)) % 256
    ELSE 255 - (((-v - 1) \div Pow256(k)) % 256)

\* the w bytes of v, most significant first (">") or last ("<")
PackBE(v, w) == [i \in 1..w |-> ByteOf(v, w - i)]

PackLE(v, w) == [i \in 1..w |-> ByteOf(v, i - 1)]

RECURSIVE UnsignedBE(_)
UnsignedBE(b) ==
    IF Len(b) = 0 THEN 0
    ELSE UnsignedBE(SubSeq(b, 1, Len(b) - 1)) * 256 + b[Len(b)]

Reverse(s) == [i \in 1..Len(s) |-> s[Len(s) + 1 - i]]

\* the integer that w big-endian bytes denote under format character c
UnpackBE(c, b) ==
    IF FormatSigned(c) /\ b[1] >= 128
    THEN -UnsignedBE([i \in 1..Len(b) |-> 255 - b[i]]) - 1
    ELSE UnsignedBE(b)

\* struct.unpack(">c", data)[0] / struct.unpack("<c", data)[0]: struct.error
\* when data is not exactly the format's size (a short read)
struct_unpack_be(c, data) ==
    IF Len(data) # FormatSize(c) THEN Err("struct.error")
    ELSE [st |-> "ok", value |-> UnpackBE(c, data)]

struct_unpack_le(c, data) ==
    IF Len(data) # FormatSize(c) THEN Err("struct.error")
    ELSE [st |-> "ok", value |-> UnpackBE(c, Reverse(data))]

\* struct.pack(">c", v) / struct.pack("<c", v)
struct_pack_be(c, v) ==
    IF ~FormatAccepts(c, v) THEN Err("struct.error")
    ELSE [st |-> "ok", data |-> PackBE(v, FormatSize(c))]

struct_pack_le(c, v) ==
    IF ~FormatAccepts(c, v) THEN Err("struct.error")
    ELSE [st |-> "ok", data |-> PackLE(v, FormatSize(c))]

\* str.encode("utf8") for code points below 0x800: one byte below 0x80, two
\* bytes from there
RECURSIVE encode(_)
encode(string) ==
    IF Len(string) = 0 THEN <<>>
    ELSE LET c == string[1]
         IN  (IF c < 128 THEN <<c>> ELSE <<192 + (c \div 64), 128 + (c % 64)>>)
             \o encode(Tail(string))

\* bytes.decode("utf8") of one- and two-byte sequences; any other byte is a
\* UnicodeDecodeError (lead bytes 0xE0..0xF4 do not occur in the model)
RECURSIVE decode(_)
decode(b) ==
    IF Len(b) = 0 THEN [st |-> "ok", string |-> <<>>]
    ELSE IF b[1] < 128
    THEN LET rest == decode(Tail(b))
         IN  IF rest.st # "ok" THEN rest
             ELSE [st |-> "ok", string |-> <<b[1]>> \o rest.string]
    ELSE IF b[1] >= 194 /\ b[1] <= 223 /\ Len(b) >= 2 /\ b[2] >= 128 /\ b[2] <= 191
    THEN LET rest == decode(SubSeq(b, 3, Len(b)))
         IN  IF rest.st # "ok" THEN rest
             ELSE [st |-> "ok",
                   string |-> <<(b[1] - 192) * 64 + (b[2] - 128)>> \o rest.string]
    ELSE Err("UnicodeDecodeError")

(***************************************************************************)
(* UTFTableValueType and the per-type dispatch shared by utfParse and      *)
(* build.                                                                  *)
(***************************************************************************)
UTFTableValueType ==
    [COLUMN_TYPE_UINT8 |-> 0, COLUMN_TYPE_SINT8 |-> 1,
     COLUMN_TYPE_UINT16 |-> 2, COLUMN_TYPE_SINT16 |-> 3,
     COLUMN_TYPE_UINT32 |-> 4, COLUMN_TYPE_SINT32 |-> 5,
     COLUMN_TYPE_UINT64 |-> 6, COLUMN_TYPE_SINT64 |-> 7,
     COLUMN_TYPE_FLOAT |-> 8, COLUMN_TYPE_DOUBLE |-> 9,
     COLUMN_TYPE_STRING |-> 10, COLUMN_TYPE_VLDATA |-> 11,
     COLUMN_TYPE_UINT128 |-> 12, COLUMN_TYPE_UNDEFINED |-> -1]

\* UTFTableValueType(type_flag).name; "" when the enum has no such value
ValueTypeName(type_flag) ==
    IF \E n \in DOMAIN UTFTableValueType : UTFTableValueType[n] = type_flag
    THEN CHOOSE n \in DOMAIN UTFTableValueType : UTFTableValueType[n] = type_flag
    ELSE ""

\* the if/elif chain on value_type: the struct format of a column's schema or
\* row entry, as a sequence of format characters; <<>> is the final else
\* (unsupported value type)
value_type_fc(value_type) ==
    CASE value_type = "COLUMN_TYPE_UINT8" -> <<"B">>
      [] value_type = "COLUMN_TYPE_SINT8" -> <<"b">>
      [] value_type = "COLUMN_TYPE_UINT16" -> <<"H">>
      [] value_type = "COLUMN_TYPE_SINT16" -> <<"h">>
      [] value_type = "COLUMN_TYPE_UINT32" -> <<"I">>
      [] value_type = "COLUMN_TYPE_SINT32" -> <<"i">>
      [] value_type = "COLUMN_TYPE_UINT64" -> <<"Q">>
      [] value_type = "COLUMN_TYPE_SINT64" -> <<"q">>
      [] value_type = "COLUMN_TYPE_FLOAT" -> <<"f">>
      [] value_type = "COLUMN_TYPE_DOUBLE" -> <<"d">>
      [] value_type = "COLUMN_TYPE_STRING" -> <<"I">>
      [] value_type = "COLUMN_TYPE_VLDATA" -> <<"I", "I">>
      [] OTHER -> <<>>

\* value_size of utfParse: the encoded width of a schema or row entry
value_size(value_type) ==
    LET fc == value_type_fc(value_type)
    IN  IF Len(fc) = 0 THEN 0
        ELSE IF Len(fc) = 1 THEN FormatSize(fc[1])
        ELSE FormatSize(fc[1]) + FormatSize(fc[2])

(***************************************************************************)
(* UTFTableBuilder.build                                                   *)
(*                                                                         *)
(* A builder `self` is the record of the instance's fields: table_name,    *)
(* version, rows_count, columns_count, columns (a list of column dicts:    *)
(* dataFlag, valueType, columnName and columnDataConstant or               *)
(* columnDataRows) and offset_alignment, which is <<>> for None and <<A>>  *)
(* for the integer A.                                                      *)
(***************************************************************************)

\* a faulty bytearrayAlignmentProcess that adds no padding (the fault that
\* C10_BlobAlignment must detect)
bytearrayAlignmentProcess_unpadded(self, bytes_raw) == [st |-> "ok", data |-> bytes_raw]

\* bytearrayAlignmentProcess: bytes_raw followed by zero bytes up to the next
\* multiple of offset_alignment; raises on a zero alignment
bytearrayAlignmentProcess(self, bytes_raw) ==
    LET a == self.offset_alignment[1]
    IN  IF a = 0 THEN Err("ZeroDivisionError")
        ELSE LET remainder == Len(bytes_raw) % a
             IN  [st |-> "ok",
                  data |-> IF remainder > 0 THEN bytes_raw \o Zeros(a - remainder)
                           ELSE bytes_raw]

\* a faulty start of build() that writes the table name without its NUL (the
\* fault that C8_MinimumTable must detect)
buildStart_unterminated(self) ==
    [err |-> "",
     schema_data |-> <<>>,
     strings_data |-> encode(self.table_name),
     binary_data |-> <<>>,
     rows_data_list |-> [i \in 1..self.rows_count |-> <<>>],
     strings_offset_dict |-> <<>>,
     table_name_offset |-> 0]

\* the buffers of one build() call before any column is emitted: the table
\* name is written to strings_data, and strings_offset_dict starts empty
buildStart(self) ==
    [err |-> "",
     schema_data |-> <<>>,
     strings_data |-> encode(self.table_name) \o <<0>>,
     binary_data |-> <<>>,
     rows_data_list |-> [i \in 1..self.rows_count |-> <<>>],
     strings_offset_dict |-> <<>>,
     table_name_offset |-> 0]

\* the offset recorded for a string, 0 when it has none (callers test
\* membership first); strings_offset_dict is a list of <<string, offset>>
dictGet(strings_offset_dict, string) ==
    IF \E i \in DOMAIN strings_offset_dict : strings_offset_dict[i][1] = string
    THEN strings_offset_dict[CHOOSE i \in DOMAIN strings_offset_dict :
                                 strings_offset_dict[i][1] = string][2]
    ELSE 0

dictHas(strings_offset_dict, string) ==
    \E i \in DOMAIN strings_offset_dict : strings_offset_dict[i][1] = string

\* a faulty string branch that appends every occurrence (the fault that
\* C7_StringsOncePerBuild must detect)
stringOffset_append(b, string) ==
    [offset |-> Len(b.strings_data),
     b |-> [b EXCEPT !.strings_data = @ \o encode(string) \o <<0>>]]

\* "if string in strings_offset_dict: ... else: ..." of build(): the offset
\* to write for a string and the buffers after it; a string not yet recorded
\* is appended NUL-terminated to strings_data and recorded
stringOffset(b, string) ==
    IF dictHas(b.strings_offset_dict, string)
    THEN [offset |-> dictGet(b.strings_offset_dict, string), b |-> b]
    ELSE [offset |-> Len(b.strings_data),
          b |-> [b EXCEPT !.strings_data = @ \o encode(string) \o <<0>>,
                          !.strings_offset_dict =
                              Append(@, <<string, Len(b.strings_data)>>)]]

\* the blob branch of build(): the (offset, size) pair to write for a blob
\* and the buffers after it; the body is aligned first when an alignment is
\* configured, and is always appended
blobOffset(self, b, bytes_raw0) ==
    LET al == IF Len(self.offset_alignment) > 0
              THEN bytearrayAlignmentProcess(self, bytes_raw0)
              ELSE [st |-> "ok", data |-> bytes_raw0]
    IN  IF al.st # "ok" THEN [b |-> [b EXCEPT !.err = al.err], offset |-> 0, size |-> 0]
        ELSE [offset |-> Len(b.binary_data),
              size |-> Len(al.data),
              b |-> [b EXCEPT !.binary_data = @ \o al.data]]

\* the bytes one value of a column becomes in the schema region (a constant)
\* or in a row slot, and the buffers after it
valueEmit(self, b, value_type, value) ==
    IF value_type = "COLUMN_TYPE_STRING"
    THEN LET so == stringOffset(b, value)
             p == struct_pack_be("I", so.offset)
         IN  IF p.st # "ok" THEN [b |-> [b EXCEPT !.err = p.err], data |-> <<>>]
             ELSE [b |-> so.b, data |-> p.data]
    ELSE IF value_type = "COLUMN_TYPE_VLDATA"
    THEN LET bo == blobOffset(self, b, value)
             p1 == struct_pack_be("I", bo.offset)
             p2 == struct_pack_be("I", bo.size)
         IN  IF bo.b.err # "" THEN [b |-> bo.b, data |-> <<>>]
             ELSE IF p1.st # "ok" \/ p2.st # "ok"
             THEN [b |-> [b EXCEPT !.err = "struct.error"], data |-> <<>>]
             ELSE [b |-> bo.b, data |-> p1.data \o p2.data]
    ELSE LET p == struct_pack_be(value_type_fc(value_type)[1], value)
         IN  IF p.st # "ok" THEN [b |-> [b EXCEPT !.err = p.err], data |-> <<>>]
             ELSE [b |-> b, data |-> p.data]

\* "for idx in range(0, self.rows_count)" of build(): each row value of one
\* column is appended to its row slot, from row idx on
RECURSIVE buildRows(_, _, _, _, _)
buildRows(self, b, value_type, rows, idx) ==
    IF idx >= self.rows_count \/ b.err # "" THEN b
    ELSE With(valueEmit(self, b, value_type, rows[idx + 1]), LAMBDA e :
             IF e.b.err # "" THEN e.b
             ELSE buildRows(self,
                            [e.b EXCEPT !.rows_data_list[idx + 1] = @ \o e.data],
                            value_type, rows, idx + 1))

\* the body of "for column in self.columns" of build()
buildColumn(self, b, column) ==
    LET data_flag == column.dataFlag
        value_type == column.valueType
        info == struct_pack_be("B", (data_flag * 16) + UTFTableValueType[value_type])
        name == stringOffset(b, column.columnName)
        b1 == [name.b EXCEPT !.schema_data =
                   b.schema_data \o info.data \o PackBE(name.offset, 4)]
    IN  IF value_type \notin DOMAIN UTFTableValueType THEN [b EXCEPT !.err = "KeyError"]
        ELSE IF info.st # "ok" THEN [b EXCEPT !.err = "struct.error"]
        ELSE IF data_flag \notin {1, 3, 5}
        THEN [b EXCEPT !.err = "unsupported data flag"]
        ELSE IF value_type_fc(value_type) = <<>>
        THEN [b EXCEPT !.err = "unsupported value type"]
        ELSE IF data_flag = 1 THEN b1
        ELSE IF data_flag = 3
        THEN With(valueEmit(self, b1, value_type, column.columnDataConstant), LAMBDA e :
                 IF e.b.err # "" THEN e.b
                 ELSE [e.b EXCEPT !.schema_data = @ \o e.data])
        ELSE IF Len(column.columnDataRows) # self.rows_count
        THEN [b1 EXCEPT !.err = "rows count"]
        ELSE buildRows(self, b1, value_type, column.columnDataRows, 0)

RECURSIVE buildColumns(_, _, _)
buildColumns(self, b, i) ==
    IF i > Len(self.columns) \/ b.err # "" THEN b
    ELSE buildColumns(self, buildColumn(self, b, self.columns[i]), i + 1)

RECURSIVE Concat(_)
Concat(ss) == IF Len(ss) = 0 THEN <<>> ELSE ss[1] \o Concat(Tail(ss))

RECURSIVE SeqSum(_)
SeqSum(ns) == IF Len(ns) = 0 THEN 0 ELSE ns[1] + SeqSum(Tail(ns))

\* "row_width = 0; if self.rows_count > 0: row_width = len(rows_data_list[0])"
buildRowWidth(self, b) ==
    IF self.rows_count > 0 THEN Len(b.rows_data_list[1]) ELSE 0

\* the strings region as written: padded, when an alignment is configured, so
\* that the blobs region begins at a multiple of it
buildStringsAligned(self, b, binary_data_offset) ==
    IF Len(self.offset_alignment) = 0 THEN [st |-> "ok", data |-> b.strings_data]
    ELSE LET a == self.offset_alignment[1]
         IN  IF a = 0 THEN Err("ZeroDivisionError")
             ELSE LET remainder == binary_data_offset % a
                  IN  [st |-> "ok",
                       data |-> IF remainder > 0
                                THEN b.strings_data \o Zeros(a - remainder)
                                ELSE b.strings_data]

\* a faulty header that stores the region offsets and the table size as they
\* are, not minus 8 (the fault that C9_HeaderDescribesRegions must detect)
buildHeader_unbiased(self, b, row_width, rows_offset, strings_offset, binary_data_offset, table_size) ==
    <<struct_pack_be("I", table_size),
      struct_pack_be("H", self.version),
      struct_pack_be("H", rows_offset),
      struct_pack_be("I", strings_offset),
      struct_pack_be("I", binary_data_offset),
      struct_pack_be("I", b.table_name_offset),
      struct_pack_be("H", self.columns_count),
      struct_pack_be("H", row_width),
      struct_pack_be("I", self.rows_count)>>

\* the header fields build() packs, in order, each with its format
buildHeader(self, b, row_width, rows_offset, strings_offset, binary_data_offset, table_size) ==
    <<struct_pack_be("I", table_size - 8),
      struct_pack_be("H", self.version),
      struct_pack_be("H", rows_offset - 8),
      struct_pack_be("I", strings_offset - 8),
      struct_pack_be("I", binary_data_offset - 8),
      struct_pack_be("I", b.table_name_offset),
      struct_pack_be("H", self.columns_count),
      struct_pack_be("H", row_width),
      struct_pack_be("I", self.rows_count)>>

\* UTFTableBuilder.build() on a builder whose fields are set (from a UTFTable
\* or by dataDictExtract)
buildFields(self) ==
    IF self.columns_count < 0 THEN Err("invalid columns count")
    ELSE IF self.rows_count < 0 THEN Err("invalid rows count")
    ELSE IF Len(self.columns) # self.columns_count THEN Err("columns count")
    ELSE
    With(buildColumns(self, buildStart(self), 1), LAMBDA b :
        IF b.err # "" THEN Err(b.err)
        ELSE IF self.rows_count > 0
                /\ \E i \in 1..self.rows_count :
                       Len(b.rows_data_list[i]) # Len(b.rows_data_list[1])
        THEN Err("lengths of each rows are not entirely consistent")
        ELSE
        LET row_width == buildRowWidth(self, b)
            rows_data == IF self.rows_count > 0 THEN Concat(b.rows_data_list) ELSE <<>>
            rows_offset == 32 + Len(b.schema_data)
            strings_offset == rows_offset + Len(rows_data)
            strings == buildStringsAligned(self, b, strings_offset + Len(b.strings_data))
        IN  IF strings.st # "ok" THEN strings
            ELSE
            LET binary_data_offset == strings_offset + Len(strings.data)
                table_size == binary_data_offset + Len(b.binary_data)
                h == buildHeader(self, b, row_width, rows_offset, strings_offset,
                                 binary_data_offset, table_size)
            IN  IF \E i \in 1..Len(h) : h[i].st # "ok" THEN Err("struct.error")
                ELSE [st |-> "ok",
                      data |-> <<64, 85, 84, 70>> \o Concat([i \in 1..Len(h) |-> h[i].data])
                               \o b.schema_data \o rows_data \o strings.data
                               \o b.binary_data])

(***************************************************************************)
(* UTFTable: construction (headerRead, headerCheck, the table name),       *)
(* stringDataGet, binaryDataGet and utfParse.                              *)
(*                                                                         *)
(* An instance is the record of its fields, with st = "ok"; a constructor  *)
(* that raises leaves no instance (st = "error"), one that never returns   *)
(* st = "hang".                                                            *)
(***************************************************************************)

\* headerRead: the magic, then the nine header fields, big-endian; the three
\* offsets and the table size are stored minus 8
headerRead(stream) ==
    LET f(c, pos) == struct_unpack_be(c, StreamRead(stream, pos, FormatSize(c)))
        table_size == f("I", 4)
        version == f("H", 8)
        rows_offset == f("H", 10)
        strings_offset == f("I", 12)
        data_offset == f("I", 16)
        name_offset_rtst == f("I", 20)
        columns_count == f("H", 24)
        row_width == f("H", 26)
        rows_count == f("I", 28)
    IN  IF StreamRead(stream, 0, 4) # <<64, 85, 84, 70>>
        THEN Err("invalid utf table header")
        ELSE IF Len(stream) < 32 THEN Err("struct.error")
        ELSE [st |-> "ok",
              stream |-> stream,
              table_size |-> table_size.value + 8,
              version |-> version.value,
              rows_offset |-> rows_offset.value + 8,
              strings_offset |-> strings_offset.value + 8,
              data_offset |-> data_offset.value + 8,
              name_offset_rtst |-> name_offset_rtst.value,
              columns_count |-> columns_count.value,
              row_width |-> row_width.value,
              rows_count |-> rows_count.value]

\* headerCheck: the four region sizes, and the conditions that raise
schema_size(self) == self.rows_offset - 32

rows_size(self) == self.strings_offset - self.rows_offset

strings_size(self) == self.data_offset - self.strings_offset

data_size(self) == self.table_size - self.data_offset

headerCheck(self) ==
    IF schema_size(self) < 0 THEN Err("invalid schema size")
    ELSE IF rows_size(self) < 0 \/ rows_size(self) < self.rows_count * self.row_width
    THEN Err("invalid rows size")
    ELSE IF strings_size(self) < 0 \/ strings_size(self) < self.name_offset_rtst
    THEN Err("invalid strings size")
    ELSE IF data_size(self) < 0 THEN Err("invalid data size")
    ELSE [st |-> "ok"]

\* the index (1-based) of the first NUL of the stream after position pos, 0
\* when there is none
FirstNul(stream, pos) ==
    LET nuls == {i \in (pos + 1)..Len(stream) : stream[i] = 0}
    IN  IF nuls = {} THEN 0 ELSE CHOOSE i \in nuls : \A j \in nuls : i <= j

\* a faulty stringDataGet whose bound admits the offset strings_size (the
\* fault that C17_RegionConditions must detect)
stringDataGet_inclusive(self, offset) ==
    IF offset > strings_size(self) THEN Err("strings offset out of bounds")
    ELSE LET pos == self.strings_offset + offset
             nul == FirstNul(self.stream, pos)
         IN  IF nul = 0 THEN [st |-> "hang"]
             ELSE decode(SubSeq(self.stream, pos + 1, nul - 1))

\* stringDataGet: the bytes from strings_offset + offset up to the first NUL,
\* decoded; the read loop ends only at a NUL byte, so it never returns when
\* the stream ends first (read(1) then returns b"" for ever)
stringDataGet(self, offset) ==
    IF offset >= strings_size(self) THEN Err("strings offset out of bounds")
    ELSE LET pos == self.strings_offset + offset
             nul == FirstNul(self.stream, pos)
         IN  IF nul = 0 THEN [st |-> "hang"]
             ELSE decode(SubSeq(self.stream, pos + 1, nul - 1))

\* binaryDataGet: stream.read(size) at data_offset + offset
binaryDataGet(self, offset, size) ==
    IF offset + size > data_size(self) THEN Err("binary data offset out of bounds")
    ELSE [st |-> "ok", data |-> StreamRead(self.stream, self.data_offset + offset, size)]

\* UTFTable.__init__ on a byte source
UTFTable(stream) ==
    With(headerRead(stream), LAMBDA h :
        IF h.st # "ok" THEN h
        ELSE IF headerCheck(h).st # "ok" THEN headerCheck(h)
        ELSE With(stringDataGet(h, h.name_offset_rtst), LAMBDA name :
        IF name.st # "ok" THEN name
        ELSE [st |-> "ok",
              stream |-> stream,
              table_size |-> h.table_size,
              version |-> h.version,
              rows_offset |-> h.rows_offset,
              strings_offset |-> h.strings_offset,
              data_offset |-> h.data_offset,
              name_offset_rtst |-> h.name_offset_rtst,
              columns_count |-> h.columns_count,
              row_width |-> h.row_width,
              rows_count |-> h.rows_count,
              table_name |-> name.string,
              parsed |-> FALSE]))

\* one value of a column read at stream position pos: the struct.unpack of
\* value_size bytes, then the pool access for a string or a blob
valueRead(self, value_type, pos) ==
    LET fc == value_type_fc(value_type)
        v1 == struct_unpack_be(fc[1], StreamRead(self.stream, pos, FormatSize(fc[1])))
        v2 == struct_unpack_be("I", StreamRead(self.stream, pos + 4, 4))
    IN  IF Len(StreamRead(self.stream, pos, value_size(value_type)))
               # value_size(value_type)
        THEN Err("struct.error")
        ELSE IF value_type = "COLUMN_TYPE_STRING"
        THEN LET str == stringDataGet(self, v1.value)
             IN  IF str.st # "ok" THEN str ELSE [st |-> "ok", value |-> str.string]
        ELSE IF value_type = "COLUMN_TYPE_VLDATA"
        THEN LET bin == binaryDataGet(self, v1.value, v2.value)
             IN  IF bin.st # "ok" THEN bin ELSE [st |-> "ok", value |-> bin.data]
        ELSE v1

\* "for row_idx in range(0, self.rows_count)" of utfParse: the row values of
\* one column from row row_idx on
RECURSIVE parseRows(_, _, _, _)
parseRows(self, value_type, column_offset_in_row, row_idx) ==
    IF row_idx >= self.rows_count THEN [st |-> "ok", rows |-> <<>>]
    ELSE With(valueRead(self, value_type,
                        self.rows_offset + row_idx * self.row_width
                            + column_offset_in_row), LAMBDA v :
             IF v.st # "ok" THEN v
             ELSE With(parseRows(self, value_type, column_offset_in_row, row_idx + 1),
                       LAMBDA rest :
                  IF rest.st # "ok" THEN rest
                  ELSE [st |-> "ok", rows |-> <<v.value>> \o rest.rows]))

\* the row-offset check of utfParse for a per-row column
rowOffsetOutOfBounds(self, offset_in_row, width) == offset_in_row + width > self.row_width

\* the body of "for _ in range(0, self.columns_count)" of utfParse, for the
\* column whose schema entry is at `offset`; the outcome carries the column
\* dict and the two cursors after it
parseColumn(self, offset, offset_in_row) ==
    LET info == struct_unpack_be("B", StreamRead(self.stream, offset, 1))
        name_offset == struct_unpack_be("I", StreamRead(self.stream, offset + 1, 4))
        data_flag == info.value \div 16
        type_flag == info.value % 16
        value_type == ValueTypeName(type_flag)
        width == value_size(value_type)
    IN  IF offset + 5 - 32 > schema_size(self) THEN Err("schema offset out of bounds")
        ELSE IF info.st # "ok" \/ name_offset.st # "ok" THEN Err("struct.error")
        ELSE IF value_type = "" THEN Err("not a valid UTFTableValueType")
        ELSE IF data_flag \notin {1, 3, 5} THEN Err("unsupported data flag")
        ELSE IF width = 0 THEN Err("unsupported value type")
        ELSE With(stringDataGet(self, name_offset.value), LAMBDA column_name :
        IF column_name.st # "ok" THEN column_name
        ELSE IF data_flag = 1
        THEN [st |-> "ok",
              column |-> [dataFlag |-> data_flag, valueType |-> value_type,
                          columnName |-> column_name.string],
              offset |-> offset + 5,
              offset_in_row |-> offset_in_row]
        ELSE IF data_flag = 3
        THEN IF offset + 5 + width - 32 > schema_size(self)
             THEN Err("schema offset out of bounds")
             ELSE With(valueRead(self, value_type, offset + 5), LAMBDA constant :
                  IF constant.st # "ok" THEN constant
                  ELSE [st |-> "ok",
                        column |-> [dataFlag |-> data_flag, valueType |-> value_type,
                                    columnName |-> column_name.string,
                                    columnDataConstant |-> constant.value],
                        offset |-> offset + 5 + width,
                        offset_in_row |-> offset_in_row])
        ELSE IF rowOffsetOutOfBounds(self, offset_in_row, width)
        THEN Err("row offset out of bounds")
        ELSE With(parseRows(self, value_type, offset_in_row, 0), LAMBDA rows :
             IF rows.st # "ok" THEN rows
             ELSE [st |-> "ok",
                   column |-> [dataFlag |-> data_flag, valueType |-> value_type,
                               columnName |-> column_name.string,
                               columnDataRows |-> rows.rows],
                   offset |-> offset + 5,
                   offset_in_row |-> offset_in_row + width]))

\* the column loop of utfParse from column i on (1-based), with the cursors
\* `offset` (schema region) and `offset_in_row`
RECURSIVE parseColumns(_, _, _, _)
parseColumns(self, i, offset, offset_in_row) ==
    IF i > self.columns_count THEN [st |-> "ok", columns |-> <<>>]
    ELSE With(parseColumn(self, offset, offset_in_row), LAMBDA c :
             IF c.st # "ok" THEN c
             ELSE With(parseColumns(self, i + 1, c.offset, c.offset_in_row), LAMBDA rest :
                  IF rest.st # "ok" THEN rest
                  ELSE [st |-> "ok", columns |-> <<c.column>> \o rest.columns]))

\* utfParse: the outcome of the parse pass, with the whole list of columns
utfParseColumns(self) == parseColumns(self, 1, 32, 0)

\* utfParse on an instance: columns and parsed are assigned together, after
\* the last column (the instance has no columns attribute before)
utfParse(self) ==
    With(utfParseColumns(self), LAMBDA r :
        IF r.st # "ok" THEN r
        ELSE [st |-> "ok",
              stream |-> self.stream,
              table_size |-> self.table_size,
              version |-> self.version,
              rows_offset |-> self.rows_offset,
              strings_offset |-> self.strings_offset,
              data_offset |-> self.data_offset,
              name_offset_rtst |-> self.name_offset_rtst,
              columns_count |-> self.columns_count,
              row_width |-> self.row_width,
              rows_count |-> self.rows_count,
              table_name |-> self.table_name,
              parsed |-> TRUE,
              columns |-> r.columns])

\* a faulty utfParse that sets parsed also when the pass raised (the fault
\* that C20_FailedParseStoresNothing must detect)
afterUtfParse_flagged(self, p) == IF p.st = "ok" THEN p ELSE [self EXCEPT !.parsed = TRUE]

\* the instance after a call of utfParse whose outcome is p: a pass that
\* raised has assigned nothing
afterUtfParse(self, p) == IF p.st = "ok" THEN p ELSE self

(***************************************************************************)
(* base64 (standard alphabet, with padding), as utf2DictJson* and          *)
(* dataDictExtract use it.                                                 *)
(***************************************************************************)
\* the character of a 6-bit value
B64Char(v) ==
    IF v < 26 THEN 65 + v
    ELSE IF v < 52 THEN 97 + (v - 26)
    ELSE IF v < 62 THEN 48 + (v - 52)
    ELSE IF v = 62 THEN 43 ELSE 47

\* the 6-bit value of a character, -1 for a character outside the alphabet
B64Value(c) ==
    IF c >= 65 /\ c <= 90 THEN c - 65
    ELSE IF c >= 97 /\ c <= 122 THEN c - 97 + 26
    ELSE IF c >= 48 /\ c <= 57 THEN c - 48 + 52
    ELSE IF c = 43 THEN 62
    ELSE IF c = 47 THEN 63 ELSE -1

\* data[i], 0 past the end
ByteAt(data, i) == IF i <= Len(data) THEN data[i] ELSE 0

\* base64.b64encode(data).decode(encoding): three bytes become four
\* characters, a last group of one or two bytes is padded with "="
b64encode(data) ==
    [k \in 1..(4 * ((Len(data) + 2) \div 3)) |->
        LET g == 3 * ((k - 1) \div 4)
            b1 == ByteAt(data, g + 1)
            b2 == ByteAt(data, g + 2)
            b3 == ByteAt(data, g + 3)
        IN  CASE (k - 1) % 4 = 0 -> B64Char(b1 \div 4)
              [] (k - 1) % 4 = 1 -> B64Char((b1 % 4) * 16 + (b2 \div 16))
              [] (k - 1) % 4 = 2 -> IF g + 2 > Len(data) THEN 61
                                    ELSE B64Char((b2 % 16) * 4 + (b3 \div 64))
              [] (k - 1) % 4 = 3 -> IF g + 3 > Len(data) THEN 61
                                    ELSE B64Char(b3 % 64)]

\* the number of "=" that end the text (2 at most)
B64Padding(text) ==
    IF Len(text) >= 1 /\ text[Len(text)] = 61
    THEN (IF Len(text) >= 2 /\ text[Len(text) - 1] = 61 THEN 2 ELSE 1)
    ELSE 0

\* base64.b64decode(text) of padded base64 text; binascii.Error on a length
\* that is no multiple of four or on misplaced padding (characters outside
\* the alphabet, which b64decode discards, do not occur in the model)
b64decode(text) ==
    LET pad == B64Padding(text)
        v(k) == B64Value(text[k])
    IN  IF Len(text) % 4 # 0 \/ \E k \in 1..(Len(text) - pad) : v(k) < 0
        THEN Err("binascii.Error")
        ELSE [st |-> "ok",
              data |-> [m \in 1..(3 * (Len(text) \div 4) - pad) |->
                  LET q == 4 * ((m - 1) \div 3)
                  IN  CASE (m - 1) % 3 = 0 -> (v(q + 1) * 4) + (v(q + 2) \div 16)
                        [] (m - 1) % 3 = 1 -> ((v(q + 2) % 16) * 16) + (v(q + 3) \div 4)
                        [] (m - 1) % 3 = 2 -> ((v(q + 3) % 4) * 64) + v(q + 4)]]

\* the outcomes of a list of calls: the first that is not "ok", else "ok"
\* with the list of what field `key` holds in each
RECURSIVE Collect(_, _)
Collect(outcomes, key) ==
    IF Len(outcomes) = 0 THEN [st |-> "ok", list |-> <<>>]
    ELSE IF outcomes[1].st # "ok" THEN outcomes[1]
    ELSE LET rest == Collect(Tail(outcomes), key)
         IN  IF rest.st # "ok" THEN rest
             ELSE [st |-> "ok", list |-> <<outcomes[1][key]>> \o rest.list]

(***************************************************************************)
(* UTFTable.utf2DictJson and UTFTable.utf2DictJsonRecursion                *)
(***************************************************************************)
\* data_raw[:4] == b"@UTF"
IsUtfMagic(data_raw) == Len(data_raw) >= 4 /\ SubSeq(data_raw, 1, 4) = <<64, 85, 84, 70>>

\* the dict both conversions start from, with the columns they produced
tableDict(self, data_columns) ==
    [tableName |-> self.table_name, version |-> self.version,
     rowsCount |-> self.rows_count, columnsCount |-> self.columns_count,
     columns |-> data_columns]

\* one column of utf2DictJson: a blob becomes base64 text
dictColumn(column) ==
    IF column.valueType # "COLUMN_TYPE_VLDATA" \/ column.dataFlag = 1 THEN column
    ELSE IF column.dataFlag = 3
    THEN [column EXCEPT !.columnDataConstant = b64encode(@)]
    ELSE [column EXCEPT !.columnDataRows =
              [i \in 1..Len(column.columnDataRows) |-> b64encode(column.columnDataRows[i])]]

\* utf2DictJson on an instance (it parses first when parsed is False)
utf2DictJson(self) ==
    With(IF self.parsed THEN self ELSE utfParse(self), LAMBDA p :
        IF p.st # "ok" THEN p
        ELSE IF Len(p.columns) # p.columns_count THEN Err("columns count")
        ELSE [st |-> "ok",
              dict |-> tableDict(p, [i \in 1..Len(p.columns) |-> dictColumn(p.columns[i])])])

\* a faulty test that descends into every blob that begins with the magic,
\* whatever the depth (the fault that C11_NestedIffMagicAndDepth must detect)
nestedTable_unbounded(data_raw, depth_max, depth) == IsUtfMagic(data_raw)

\* the test that makes utf2DictJsonRecursion descend into a blob
nestedTable(data_raw, depth_max, depth) == IsUtfMagic(data_raw) /\ depth < depth_max

RECURSIVE utf2DictJsonRecursion(_, _, _)
\* UTFTable(data_raw).utf2DictJsonRecursion(depth_max, depth + 1)
nestedDict(data_raw, depth_max, depth) ==
    With(UTFTable(data_raw), LAMBDA utf_table :
        IF utf_table.st # "ok" THEN utf_table
        ELSE utf2DictJsonRecursion(utf_table, depth_max, depth + 1))

\* one column of utf2DictJsonRecursion
dictColumnRecursion(column, depth_max, depth) ==
    IF column.valueType # "COLUMN_TYPE_VLDATA" \/ column.dataFlag = 1
    THEN [st |-> "ok", column |-> column]
    ELSE IF column.dataFlag = 3
    THEN IF nestedTable(column.columnDataConstant, depth_max, depth)
         THEN With(nestedDict(column.columnDataConstant, depth_max, depth), LAMBDA d :
                  IF d.st # "ok" THEN d
                  ELSE [st |-> "ok",
                        column |-> [column EXCEPT
                                      !.valueType = "COLUMN_TYPE_VLDATA_UTFTABLE",
                                      !.columnDataConstant = d.dict]])
         ELSE [st |-> "ok", column |-> dictColumn(column)]
    ELSE IF Len(column.columnDataRows) = 0 THEN Err("IndexError")
    ELSE IF nestedTable(column.columnDataRows[1], depth_max, depth)
    THEN With(Collect([i \in 1..Len(column.columnDataRows) |->
                          nestedDict(column.columnDataRows[i], depth_max, depth)],
                      "dict"), LAMBDA ds :
             IF ds.st # "ok" THEN ds
             ELSE [st |-> "ok",
                   column |-> [column EXCEPT
                                 !.valueType = "COLUMN_TYPE_VLDATA_UTFTABLE",
                                 !.columnDataRows = ds.list]])
    ELSE [st |-> "ok", column |-> dictColumn(column)]

\* utf2DictJsonRecursion on an instance (it parses first when parsed is False)
utf2DictJsonRecursion(self, depth_max, depth) ==
    IF depth > depth_max THEN Err("current depth exceeds the maximum depth")
    ELSE With(IF self.parsed THEN self ELSE utfParse(self), LAMBDA p :
             IF p.st # "ok" THEN p
             ELSE IF Len(p.columns) # p.columns_count THEN Err("columns count")
             ELSE With(Collect([i \in 1..Len(p.columns) |->
                                  dictColumnRecursion(p.columns[i], depth_max, depth)],
                               "column"), LAMBDA cs :
                  IF cs.st # "ok" THEN cs
                  ELSE [st |-> "ok", dict |-> tableDict(p, cs.list)]))

\* the default of depth_max
DepthMaxDefault == 5

(***************************************************************************)
(* UTFTableBuilder: construction, dataDictExtract, build                   *)
(***************************************************************************)
\* UTFTableBuilder(data_raw, offset_alignment = al) for a dict
BuilderFromDict(data_raw_dict, al) ==
    [st |-> "ok", from_UTFTable |-> FALSE, data_raw_dict |-> data_raw_dict,
     offset_alignment |-> al]

\* UTFTableBuilder(data_raw, offset_alignment = al) for a UTFTable instance,
\* which is parsed first when its parsed is False
BuilderFromUTFTable(data_raw, al) ==
    With(IF data_raw.parsed THEN data_raw ELSE utfParse(data_raw), LAMBDA p :
        IF p.st # "ok" THEN p
        ELSE [st |-> "ok", from_UTFTable |-> TRUE,
              table_name |-> p.table_name, version |-> p.version,
              rows_count |-> p.rows_count, columns_count |-> p.columns_count,
              columns |-> p.columns, offset_alignment |-> al])

RECURSIVE build(_)
\* one column of dataDictExtract
extractColumn(self, column_raw) ==
    LET inner(d) == build(BuilderFromDict(d, self.offset_alignment))
        head == [dataFlag |-> column_raw.dataFlag, valueType |-> column_raw.valueType,
                 columnName |-> column_raw.columnName]
        known == column_raw.valueType \in DOMAIN UTFTableValueType
    IN  IF column_raw.dataFlag = 1 THEN [st |-> "ok", column |-> head]
        ELSE IF column_raw.dataFlag = 3
        THEN IF column_raw.valueType = "COLUMN_TYPE_VLDATA"
             THEN LET d == b64decode(column_raw.columnDataConstant)
                  IN  IF d.st # "ok" THEN d
                      ELSE [st |-> "ok",
                            column |-> [column_raw EXCEPT !.columnDataConstant = d.data]]
             ELSE IF column_raw.valueType = "COLUMN_TYPE_VLDATA_UTFTABLE"
             THEN With(inner(column_raw.columnDataConstant), LAMBDA d :
                      IF d.st # "ok" THEN d
                      ELSE [st |-> "ok",
                            column |-> [column_raw EXCEPT
                                          !.columnDataConstant = d.data,
                                          !.valueType = "COLUMN_TYPE_VLDATA"]])
             ELSE IF known THEN [st |-> "ok", column |-> column_raw]
             ELSE Err("unsupported value type")
        ELSE IF column_raw.dataFlag = 5
        THEN IF column_raw.valueType = "COLUMN_TYPE_VLDATA"
             THEN LET ds == Collect([i \in 1..Len(column_raw.columnDataRows) |->
                                       b64decode(column_raw.columnDataRows[i])], "data")
                  IN  IF ds.st # "ok" THEN ds
                      ELSE [st |-> "ok",
                            column |-> [column_raw EXCEPT !.columnDataRows = ds.list]]
             ELSE IF column_raw.valueType = "COLUMN_TYPE_VLDATA_UTFTABLE"
             THEN With(Collect([i \in 1..Len(column_raw.columnDataRows) |->
                                  inner(column_raw.columnDataRows[i])], "data"), LAMBDA ds :
                      IF ds.st # "ok" THEN ds
                      ELSE [st |-> "ok",
                            column |-> [column_raw EXCEPT
                                          !.columnDataRows = ds.list,
                                          !.valueType = "COLUMN_TYPE_VLDATA"]])
             ELSE IF known THEN [st |-> "ok", column |-> column_raw]
             ELSE Err("unsupported value type")
        ELSE Err("unsupported data flag")

\* dataDictExtract: the builder with its fields set from data_raw_dict
dataDictExtract(self) ==
    LET d == self.data_raw_dict
    IN  With(Collect([i \in 1..Len(d.columns) |-> extractColumn(self, d.columns[i])],
                     "column"), LAMBDA cs :
        IF cs.st # "ok" THEN cs
        ELSE [st |-> "ok", from_UTFTable |-> FALSE, data_raw_dict |-> d,
              table_name |-> d.tableName, version |-> d.version,
              rows_count |-> d.rowsCount, columns_count |-> d.columnsCount,
              columns |-> cs.list, offset_alignment |-> self.offset_alignment])

\* UTFTableBuilder.build(): a builder made from a dict extracts it first
build(self) ==
    IF self.from_UTFTable THEN buildFields(self)
    ELSE With(dataDictExtract(self), LAMBDA e :
             IF e.st # "ok" THEN e ELSE buildFields(e))

(***************************************************************************)
(* AWBBuilder (src/awb.py): construction, offsetAlignmentProcess,          *)
(* headerPrepare and build.  The sub-files are given by their contents,    *)
(* and build's result is the content of the file it writes.                *)
(***************************************************************************)
\* AWBBuilder.__init__: the checks of the configuration, then the instance
AWBBuilder(subfiles, version, offset_size, audioid_size, offset_alignment, subkey, offset_mode) ==
    IF version < 0 \/ version > 255 THEN Err("unsupported version")
    ELSE IF offset_size \notin {2, 4} THEN Err("unsupported offset size")
    ELSE IF audioid_size \notin {2, 4} THEN Err("unsupported audio ID size")
    ELSE IF audioid_size = 2 /\ Len(subfiles) > 65536 THEN Err("too many subfiles")
    ELSE IF offset_alignment <= 0 \/ offset_alignment > 65535
    THEN Err("unsupported offset alignment")
    ELSE IF subkey < 0 \/ subkey > 65535 THEN Err("unsupported subkey")
    ELSE IF offset_mode \notin {0, 1} THEN Err("unsupported offset mode")
    ELSE [st |-> "ok", sunfiles |-> subfiles, subfiles_count |-> Len(subfiles),
          version |-> version, offset_size |-> offset_size,
          audioid_size |-> audioid_size, offset_alignment |-> offset_alignment,
          subkey |-> subkey, offset_mode |-> offset_mode]

\* offsetAlignmentProcess: the smallest multiple of offset_alignment that is
\* not below offset
offsetAlignmentProcess(self, offset) ==
    LET remainder == offset % self.offset_alignment
    IN  IF remainder > 0 THEN offset - remainder + self.offset_alignment ELSE offset

\* the format character of a 2- or 4-byte table entry
WidthFormat(size) == IF size = 2 THEN "H" ELSE "I"

\* headerPrepare: the 0x10-byte header, the ID table (the ordinals) and the
\* offset table, zero-filled; struct.error when an ordinal does not fit
headerPrepare(self) ==
    LET ids == [i \in 1..self.subfiles_count |->
                   struct_pack_le(WidthFormat(self.audioid_size), i - 1)]
    IN  IF \E i \in 1..self.subfiles_count : ids[i].st # "ok" THEN Err("struct.error")
        ELSE [st |-> "ok",
              data |-> <<65, 70, 83, 50>>
                       \o PackLE(self.version, 1) \o PackLE(self.offset_size, 1)
                       \o PackLE(self.audioid_size, 2) \o PackLE(self.subfiles_count, 4)
                       \o PackLE(self.offset_alignment, 2) \o PackLE(self.subkey, 2)
                       \o Concat([i \in 1..self.subfiles_count |-> ids[i].data])
                       \o Zeros(self.offset_size * (self.subfiles_count + 1))]

\* the two offset vectors of build(): offset_list_last_end and
\* offset_list_start after the first n sub-files (n + 1 entries each)
RECURSIVE offset_list_last_end(_, _, _)
RECURSIVE offset_list_start(_, _, _)
offset_list_last_end(self, header_len, n) ==
    IF n = 0 THEN <<header_len>>
    ELSE LET before == offset_list_start(self, header_len, n - 1)
         IN  Append(offset_list_last_end(self, header_len, n - 1),
                    before[n] + Len(self.sunfiles[n]))

offset_list_start(self, header_len, n) ==
    LET ends == offset_list_last_end(self, header_len, n)
    IN  [i \in 1..(n + 1) |-> offsetAlignmentProcess(self, ends[i])]

\* a faulty test that pads after every sub-file, the last one too (the fault
\* that C12_TwoEntriesLastEnd must detect)
buildPadsAfter_always(self, n) == TRUE

\* whether build() writes the zero padding after sub-file number n
buildPadsAfter(self, n) == n < self.subfiles_count \/ self.offset_mode = 1

\* the bytes build() writes after the header: the padding up to the first
\* start, then each sub-file and, where buildPadsAfter, the padding up to the
\* next start
buildBody(self, last_end, start) ==
    Zeros(start[1] - last_end[1])
    \o Concat([n \in 1..self.subfiles_count |->
                  self.sunfiles[n]
                  \o (IF buildPadsAfter(self, n)
                      THEN Zeros(start[n + 1] - last_end[n + 1]) ELSE <<>>)])

\* a faulty choice that writes offset_list_last_end under either mode (the
\* fault that C13_BuildLayout must detect)
buildOffsetList_last_end(self, last_end, start) == last_end

\* the offset vector build() writes into the table
buildOffsetList(self, last_end, start) == IF self.offset_mode = 0 THEN last_end ELSE start

\* file.seek(pos); file.write(data) on a file that is at least pos long
Overwrite(file, pos, data) ==
    [i \in 1..Max(Len(file), pos + Len(data)) |->
        IF i > pos /\ i <= pos + Len(data) THEN data[i - pos] ELSE file[i]]

\* AWBBuilder.build: the file it leaves; st is "error" when it raises, and
\* `data` is then what was written before (the offset table is written entry
\* by entry, up to the first offset that struct.pack refuses)
AWBBuilder_build(self) ==
    LET header_data == headerPrepare(self)
        last_end == offset_list_last_end(self, Len(header_data.data), self.subfiles_count)
        start == offset_list_start(self, Len(header_data.data), self.subfiles_count)
        body == header_data.data \o buildBody(self, last_end, start)
        offset_list == buildOffsetList(self, last_end, start)
        packed == [i \in 1..(self.subfiles_count + 1) |->
                      struct_pack_le(WidthFormat(self.offset_size), offset_list[i])]
        good == IF \E i \in 1..Len(packed) : packed[i].st # "ok"
                THEN (CHOOSE i \in 1..Len(packed) :
                          /\ packed[i].st # "ok"
                          /\ \A j \in 1..(i - 1) : packed[j].st = "ok") - 1
                ELSE Len(packed)
        table == Concat([i \in 1..good |-> packed[i].data])
        file == Overwrite(body, 16 + self.audioid_size * self.subfiles_count, table)
    IN  IF header_data.st # "ok" THEN [st |-> "error", err |-> "struct.error", data |-> <<>>]
        ELSE IF good < Len(packed)
        THEN [st |-> "error", err |-> "struct.error", data |-> file]
        ELSE [st |-> "ok", data |-> file]

(***************************************************************************)
(* AWB (src/awb.py): construction (headerRead) and extract.                *)
(***************************************************************************)
\* a faulty rounding that leaves the offset as it is (the fault that
\* C3_ExtractRebuildBitExact must detect)
alignedStart_unrounded(offset_alignment, offset) == offset

\* the smallest multiple of offset_alignment not below an offset, as
\* headerRead and extract compute it
alignedStart(offset_alignment, offset) ==
    LET remainder == offset % offset_alignment
    IN  IF remainder > 0 THEN offset - remainder + offset_alignment ELSE offset

\* a faulty size test that accepts every source (the fault that
\* C16_ConstructionConditions must detect)
sourceTooShort_never(stream, audio_offsets) == FALSE

\* headerRead's size test: the source ends before audio_offsets[-1]
sourceTooShort(stream, audio_offsets) == Len(stream) < audio_offsets[Len(audio_offsets)]

\* AWB.__init__ / headerRead on a byte source
AWB(stream) ==
    LET f(c, pos) == struct_unpack_le(c, StreamRead(stream, pos, FormatSize(c)))
        version == f("B", 4)
        offset_size == f("B", 5)
        audioid_size == f("H", 6)
        subfiles_count == f("I", 8)
        offset_alignment == f("H", 12)
        subkey == f("H", 14)
        n == subfiles_count.value
        ids == [i \in 1..n |->
                   f(WidthFormat(audioid_size.value), 16 + audioid_size.value * (i - 1))]
        table == 16 + audioid_size.value * n
        offs == [i \in 1..(n + 1) |->
                    f(WidthFormat(offset_size.value), table + offset_size.value * (i - 1))]
        offset == table + offset_size.value * (n + 1)
        audio_offsets == [i \in 1..(n + 1) |-> offs[i].value]
    IN  IF StreamRead(stream, 0, 4) # <<65, 70, 83, 50>> THEN Err("invalid awb header")
        ELSE IF Len(stream) < 16 THEN Err("struct.error")
        ELSE IF audioid_size.value \notin {2, 4}
        THEN Err("unknown awb audio ID size")
        ELSE IF \E i \in 1..n : ids[i].st # "ok" THEN Err("struct.error")
        ELSE IF offset_size.value \notin {2, 4} THEN Err("unknown awb offset size")
        ELSE IF \E i \in 1..(n + 1) : offs[i].st # "ok" THEN Err("struct.error")
        ELSE IF offset > audio_offsets[1]
        THEN Err("offset now should not be greater than audio_offsets[0]")
        ELSE IF sourceTooShort(stream, audio_offsets)
        THEN Err("awb file size should not be less than audio_offsets[-1]")
        ELSE IF offset_alignment.value = 0 THEN Err("ZeroDivisionError")
        ELSE [st |-> "ok", stream |-> stream, version |-> version.value,
              offset_size |-> offset_size.value, audioid_size |-> audioid_size.value,
              subfiles_count |-> n, offset_alignment |-> offset_alignment.value,
              subkey |-> subkey.value,
              audioids |-> [i \in 1..n |-> ids[i].value],
              audio_offsets |-> [audio_offsets EXCEPT
                                   ![1] = alignedStart(offset_alignment.value, @)]]

\* stream.seek(pos); stream.read(size): a negative size reads to the end
StreamReadSize(stream, pos, size) ==
    IF size < 0 THEN StreamRead(stream, pos, Len(stream)) ELSE StreamRead(stream, pos, size)

\* the bytes extract writes for entry idx (0-based)
extractEntry(self, idx) ==
    LET offset_start == alignedStart(self.offset_alignment, self.audio_offsets[idx + 1])
    IN  StreamReadSize(self.stream, offset_start, self.audio_offsets[idx + 2] - offset_start)

\* extract: the files written, in order, each with the ID in its name
extract(self) ==
    [idx \in 1..self.subfiles_count |->
        [audioid |-> self.audioids[idx], data |-> extractEntry(self, idx - 1)]]

(***************************************************************************)
(* The tables and archives drawn as input.                                 *)
(***************************************************************************)
\* a value that is not there (Python's None, or a name not yet bound)
None == [st |-> "none"]

\* "T", "k", "n", "s", "b", "t", "h", "g", "a" as str
StrT == <<84>>

StrA == <<97>>

Name(c) == <<c>>

\* a 17-byte blob, and four bytes that are only the @UTF magic
Blob17 == [i \in 1..17 |-> i]

BlobMagic == <<64, 85, 84, 70>>

\* the dict of the minimum table: "T", version 1, no rows, no columns
MinimumDict ==
    [tableName |-> StrT, version |-> 1, rowsCount |-> 0, columnsCount |-> 0,
     columns |-> <<>>]

\* the dict of a table "T" whose one column is a constant nested table, the
\* minimum table
NestedDict ==
    [tableName |-> StrT, version |-> 1, rowsCount |-> 0, columnsCount |-> 1,
     columns |-> <<[dataFlag |-> 3, valueType |-> "COLUMN_TYPE_VLDATA_UTFTABLE",
                    columnName |-> Name(116), columnDataConstant |-> MinimumDict]>>]

\* the column dicts a table of `rows` rows is made of, as they stand in a
\* dict read from JSON: blobs are base64 text, a nested table is a dict
ColumnDicts(rows) ==
    LET col(f, vt, n) == [dataFlag |-> f, valueType |-> vt, columnName |-> Name(n)]
        const(vt, n, v) ==
            [dataFlag |-> 3, valueType |-> vt, columnName |-> Name(n),
             columnDataConstant |-> v]
        perRow(vt, n, vs) ==
            [dataFlag |-> 5, valueType |-> vt, columnName |-> Name(n),
             columnDataRows |-> vs]
    IN  << col(1, "COLUMN_TYPE_UINT8", 107),
           const("COLUMN_TYPE_UINT32", 110, 305419896),
           const("COLUMN_TYPE_STRING", 115, StrT),
           const("COLUMN_TYPE_STRING", 84, StrA),
           const("COLUMN_TYPE_VLDATA", 98, b64encode(Blob17)),
           const("COLUMN_TYPE_VLDATA", 98, b64encode(BlobMagic)),
           const("COLUMN_TYPE_VLDATA_UTFTABLE", 116, MinimumDict),
           const("COLUMN_TYPE_VLDATA_UTFTABLE", 116, NestedDict),
           const("COLUMN_TYPE_UINT128", 103, 1),
           const("COLUMN_TYPE_UINT8", 103, 256),
           perRow("COLUMN_TYPE_UINT8", 107, [i \in 1..rows |-> i]),
           perRow("COLUMN_TYPE_STRING", 107,
                  [i \in 1..rows |-> IF i < 3 THEN StrA ELSE <<98>>]),
           perRow("COLUMN_TYPE_VLDATA", 98, [i \in 1..rows |-> b64encode(<<1>>)]),
           perRow("COLUMN_TYPE_VLDATA_UTFTABLE", 116, [i \in 1..rows |-> MinimumDict]),
           perRow("COLUMN_TYPE_SINT16", 104, [i \in 1..rows |-> 0 - i - 1]) >>

\* the choices of at most MaxColumns of these columns, in order
ColumnChoices ==
    UNION {[1..n -> 1..Len(ColumnDicts(0))] : n \in 0..MaxColumns}

\* the dict of a table "T", version 1, of `rows` rows and the chosen columns
InputDict(rows, choice) ==
    [tableName |-> StrT, version |-> 1, rowsCount |-> rows,
     columnsCount |-> Len(choice),
     columns |-> [i \in 1..Len(choice) |-> ColumnDicts(rows)[choice[i]]]]

\* the blob alignments a builder is configured with: None, 4, 0x20
Alignments == {<<>>, <<4>>, <<32>>}

\* the depth limits utf2DictJsonRecursion is called with
DepthMaxes == {0, 1, DepthMaxDefault}

\* the sum of the encoded widths of the PerRow columns of a column list
RECURSIVE PerRowWidth(_)
PerRowWidth(columns) ==
    IF Len(columns) = 0 THEN 0
    ELSE (IF columns[1].dataFlag = 5 /\ columns[1].valueType \in DOMAIN UTFTableValueType
          THEN value_size(columns[1].valueType) ELSE 0) + PerRowWidth(Tail(columns))

\* a byte source with the header's row_width field (2 bytes at 0x1A) rewritten
WithRowWidth(data, row_width) ==
    [i \in 1..Len(data) |->
        IF i \in {27, 28} /\ Len(data) >= 28 THEN PackBE(row_width, 2)[i - 26] ELSE data[i]]

\* the big-endian field of `width` bytes at `pos` of a byte source
FieldAt(data, pos, width) == UnsignedBE(SubSeq(data, pos + 1, pos + width))

\* a byte source with the field of `width` bytes at `pos` rewritten
WithField(data, pos, width, value) == Overwrite(data, pos, PackBE(value, width))

\* a built table under a header that breaks one region condition: a schema
\* region of size -1; a rows region one byte short of rows_count * row_width;
\* a strings region that ends at the table name's offset, and one that ends
\* a byte before it; a blobs region of size -1; and, with the regions in
\* order, a schema region of 4 bytes
HeaderSources(data) ==
    LET rows_offset == FieldAt(data, 10, 2)
        strings_offset == FieldAt(data, 12, 4)
        data_offset == FieldAt(data, 16, 4)
        name_offset_rtst == FieldAt(data, 20, 4)
        row_width == FieldAt(data, 26, 2)
        rows_count == FieldAt(data, 28, 4)
    IN  {WithField(data, 10, 2, 23),
         WithField(data, 12, 4, rows_offset + rows_count * row_width - 1),
         WithField(data, 16, 4, strings_offset + name_offset_rtst),
         WithField(data, 16, 4, strings_offset + name_offset_rtst - 1),
         WithField(data, 4, 4, data_offset - 1),
         WithField(data, 10, 2, 28)}

\* a built table of at least one column with the schema entry of its first
\* column rewritten: the type tag 0x0C; the storage flag 7; a name offset at
\* the end of the strings region; and, for a constant blob, a blob offset at
\* the end of the blobs region
SchemaSources(data) ==
    LET info == data[33]
        strings_region == FieldAt(data, 16, 4) - FieldAt(data, 12, 4)
        blobs_region == FieldAt(data, 4, 4) - FieldAt(data, 16, 4)
    IN  IF FieldAt(data, 24, 2) = 0 THEN {}
        ELSE {[data EXCEPT ![33] = (info \div 16) * 16 + 12],
              [data EXCEPT ![33] = 7 * 16 + (info % 16)],
              WithField(data, 33, 4, strings_region)}
             \cup (IF info = 59 THEN {WithField(data, 37, 4, blobs_region)} ELSE {})

\* a built table as a source that ends one byte early (without the last NUL
\* of the strings region, or the last byte of the last blob), and under a
\* header whose strings region ends one byte after the table name's offset
PoolSources(data) ==
    {SubSeq(data, 1, Len(data) - 1),
     WithField(data, 16, 4, FieldAt(data, 12, 4) + FieldAt(data, 20, 4) + 1)}

\* the byte sources handed to UTFTable for a built table: the built bytes;
\* the same table as a writer stores it that records the row width of the
\* schema also when the table has no rows; and, for a table of at most one
\* column built without blob alignment, the altered ones
ByteSources(data, columns, offset_alignment) ==
    {data, WithRowWidth(data, PerRowWidth(columns))}
        \cup (IF offset_alignment = <<>> /\ Len(columns) <= 1
              THEN HeaderSources(data) \cup SchemaSources(data) \cup PoolSources(data)
              ELSE {})

(***************************************************************************)
(* The state of a client of the two codecs.                                *)
(***************************************************************************)
VARIABLES
    pc,             \* the step the client is at
    call,           \* the call the client made last: its name, then its arguments
    raised,         \* the exception the last call raised, "" when it returned
    builder,        \* the UTFTableBuilder instance
    data,           \* the bytes builder.build() returned
    stream,         \* the byte source handed to UTFTable
    utf,            \* the UTFTable instance
    rebuilt,        \* the bytes UTFTableBuilder(utf).build() returned
    reparsed,       \* the UTFTable instance parsed from rebuilt
    dict,           \* the dict utf2DictJson / utf2DictJsonRecursion returned
    extracted,      \* the UTFTableBuilder made from dict, after dataDictExtract
    parse_passes,   \* the passes utfParse has made over the source of utf
    awb_builder,    \* the AWBBuilder instance
    awb_file,       \* the file AWBBuilder.build wrote
    awb_stream,     \* the byte source handed to AWB
    awb,            \* the AWB instance
    awb_extracted,  \* the files AWB.extract wrote
    awb_rebuilt     \* the file a second AWBBuilder wrote from awb_extracted

vars ==
    <<pc, call, raised, builder, data, stream, utf, rebuilt, reparsed, dict, extracted,
      parse_passes,
      awb_builder, awb_file, awb_stream, awb, awb_extracted, awb_rebuilt>>

utfVars ==
    <<call, builder, data, stream, utf, rebuilt, reparsed, dict, extracted, parse_passes>>

awbVars == <<awb_builder, awb_file, awb_stream, awb, awb_extracted, awb_rebuilt>>

\* what a call left in `raised`, and the value it returned (None if it raised
\* or never returned); after a call that never returned ("hang") the client
\* makes no other call on the instance
Raised(outcome) ==
    IF outcome.st = "ok" THEN "" ELSE IF outcome.st = "hang" THEN "hang" ELSE outcome.err

Returned(outcome) == IF outcome.st = "ok" THEN outcome ELSE None

(***************************************************************************)
(* The @UTF client: UTFTableBuilder(dict).build(), UTFTable(bytes),        *)
(* utfParse(), then either UTFTableBuilder(utf).build() and a second       *)
(* parse, or utf2DictJson / utf2DictJsonRecursion and dataDictExtract.     *)
(***************************************************************************)
Init ==
    /\ pc = "start"
    /\ call = <<>>
    /\ raised = ""
    /\ \E rows \in 0..MaxRows, choice \in ColumnChoices, al \in Alignments :
           builder = BuilderFromDict(InputDict(rows, choice), al)
    /\ data = None /\ stream = None /\ utf = None /\ rebuilt = None
    /\ reparsed = None /\ dict = None /\ extracted = None
    /\ parse_passes = 0
    /\ awb_builder = None /\ awb_file = None /\ awb_stream = None /\ awb = None
    /\ awb_extracted = None /\ awb_rebuilt = None

\* builder.build(): dataDictExtract sets the instance's fields (columns last,
\* and not at all when it raises), then the bytes are produced
Build ==
    /\ pc = "start"
    /\ With(dataDictExtract(builder), LAMBDA e :
           builder' = IF e.st = "ok" THEN e
                      ELSE [st |-> "ok", from_UTFTable |-> FALSE,
                            data_raw_dict |-> builder.data_raw_dict,
                            offset_alignment |-> builder.offset_alignment,
                            table_name |-> builder.data_raw_dict.tableName,
                            version |-> builder.data_raw_dict.version,
                            rows_count |-> builder.data_raw_dict.rowsCount,
                            columns_count |-> builder.data_raw_dict.columnsCount])
    /\ With(build(builder), LAMBDA r :
           /\ data' = Returned(r)
           /\ raised' = Raised(r))
    /\ pc' = "built"
    /\ call' = <<"build">>
    /\ UNCHANGED <<stream, utf, rebuilt, reparsed, dict, extracted>>
    /\ UNCHANGED parse_passes
    /\ UNCHANGED awbVars

\* UTFTable(source)
Open ==
    /\ pc = "built"
    /\ data.st = "ok"
    /\ \E source \in ByteSources(data.data, builder.columns, builder.offset_alignment) :
           /\ stream' = [st |-> "ok", data |-> source]
           /\ With(UTFTable(source), LAMBDA t :
                  /\ utf' = Returned(t)
                  /\ raised' = Raised(t))
    /\ pc' = "opened"
    /\ call' = <<"UTFTable">>
    /\ UNCHANGED <<builder, data, rebuilt, reparsed, dict, extracted>>
    /\ UNCHANGED parse_passes
    /\ UNCHANGED awbVars

\* utf.utfParse(), on an instance just constructed or once more on one that
\* utfParse was called on: columns and parsed are assigned when the pass
\* completes
Parse ==
    /\ pc \in {"opened", "parsed"}
    /\ utf.st = "ok"
    /\ raised # "hang"
    /\ With(utfParse(utf), LAMBDA p :
           /\ utf' = afterUtfParse(utf, p)
           /\ raised' = Raised(p))
    /\ parse_passes' = parse_passes + 1
    /\ pc' = IF pc = "opened" THEN "parsed" ELSE "parsed_again"
    /\ call' = <<"utfParse">>
    /\ UNCHANGED <<builder, data, stream, rebuilt, reparsed, dict, extracted>>
    /\ UNCHANGED awbVars

\* the instance after a call that parses it first when parsed is False
AfterImplicitParse(self) ==
    IF self.parsed THEN self
    ELSE With(utfParse(self), LAMBDA p : afterUtfParse(self, p))

\* the passes such a call adds: one when parsed is False
ImplicitPasses(self) == IF self.parsed THEN 0 ELSE 1

\* UTFTableBuilder(utf).build()
Rebuild ==
    /\ pc = "parsed"
    /\ utf.st = "ok"
    /\ raised # "hang"
    /\ With(With(BuilderFromUTFTable(utf, <<>>),
                 LAMBDA b : IF b.st = "ok" THEN build(b) ELSE b), LAMBDA r :
           /\ rebuilt' = Returned(r)
           /\ raised' = Raised(r))
    /\ utf' = AfterImplicitParse(utf)
    /\ parse_passes' = parse_passes + ImplicitPasses(utf)
    /\ pc' = "rebuilt"
    /\ call' = <<"UTFTableBuilder">>
    /\ UNCHANGED <<builder, data, stream, reparsed, dict, extracted>>
    /\ UNCHANGED awbVars

\* UTFTable(bytes) followed by utfParse()
parse(bytes) ==
    With(UTFTable(bytes), LAMBDA t : IF t.st = "ok" THEN utfParse(t) ELSE t)

\* UTFTable(rebuilt).utfParse()
Reparse ==
    /\ pc = "rebuilt"
    /\ rebuilt.st = "ok"
    /\ With(parse(rebuilt.data), LAMBDA r :
           /\ reparsed' = Returned(r)
           /\ raised' = Raised(r))
    /\ pc' = "reparsed"
    /\ call' = <<"UTFTable">>
    /\ UNCHANGED <<builder, data, stream, utf, rebuilt, dict, extracted>>
    /\ UNCHANGED parse_passes
    /\ UNCHANGED awbVars

\* utf.utf2DictJson()
Utf2DictJson ==
    /\ pc = "parsed"
    /\ utf.st = "ok"
    /\ raised # "hang"
    /\ With(utf2DictJson(utf), LAMBDA r :
           /\ dict' = Returned(r)
           /\ raised' = Raised(r))
    /\ utf' = AfterImplicitParse(utf)
    /\ parse_passes' = parse_passes + ImplicitPasses(utf)
    /\ pc' = "dict"
    /\ call' = <<"utf2DictJson">>
    /\ UNCHANGED <<builder, data, stream, rebuilt, reparsed, extracted>>
    /\ UNCHANGED awbVars

\* utf.utf2DictJsonRecursion(depth_max)
Utf2DictJsonRecursion ==
    /\ pc = "parsed"
    /\ utf.st = "ok"
    /\ raised # "hang"
    /\ \E depth_max \in DepthMaxes :
           /\ With(utf2DictJsonRecursion(utf, depth_max, 0), LAMBDA r :
                  /\ dict' = Returned(r)
                  /\ raised' = Raised(r))
           /\ call' = <<"utf2DictJsonRecursion", depth_max>>
    /\ utf' = AfterImplicitParse(utf)
    /\ parse_passes' = parse_passes + ImplicitPasses(utf)
    /\ pc' = "dict"
    /\ UNCHANGED <<builder, data, stream, rebuilt, reparsed, extracted>>
    /\ UNCHANGED awbVars

\* UTFTableBuilder(dict).dataDictExtract()
DataDictExtract ==
    /\ pc = "dict"
    /\ dict.st = "ok"
    /\ With(dataDictExtract(BuilderFromDict(dict.dict, <<>>)), LAMBDA r :
           /\ extracted' = Returned(r)
           /\ raised' = Raised(r))
    /\ pc' = "extracted"
    /\ call' = <<"dataDictExtract">>
    /\ UNCHANGED <<builder, data, stream, utf, rebuilt, reparsed, dict>>
    /\ UNCHANGED parse_passes
    /\ UNCHANGED awbVars

Next ==
    \/ Build
    \/ Open
    \/ Parse
    \/ Rebuild
    \/ Reparse
    \/ Utf2DictJson
    \/ Utf2DictJsonRecursion
    \/ DataDictExtract

Spec == Init /\ [][Next]_vars

(***************************************************************************)
(* The AFS2 client: AWBBuilder(subfiles, ...).build(path), AWB(path),      *)
(* extract(dir), and a second AWBBuilder over the extracted files with     *)
(* the same configuration.                                                 *)
(***************************************************************************)
\* the contents of the sub-files drawn as input: 0, 1, 5 and 7 bytes
Payloads == {<<>>, <<255>>, <<72, 67, 65, 0, 5>>, <<1, 2, 3, 4, 5, 6, 7>>}

PayloadLists == UNION {[1..n -> Payloads] : n \in 0..MaxSubfiles}

\* the configurations drawn as input; the last two, with 2-byte offsets and
\* the alignment 0x8000, take an archive of two payloads past 0xFFFF
Configs ==
    [version : {2}, offset_size : {2, 4}, audioid_size : {2, 4},
     offset_alignment : {1, 4, 32}, subkey : {0, 5}, offset_mode : {0, 1}]
    \cup [version : {2}, offset_size : {2}, audioid_size : {2},
          offset_alignment : {32768}, subkey : {0}, offset_mode : {0, 1}]

\* an archive with its offset table rewritten to hold `offsets`
WithOffsetTable(file, audioid_size, offset_size, offsets) ==
    Overwrite(file, 16 + audioid_size * (Len(offsets) - 1),
              Concat([i \in 1..Len(offsets) |-> PackLE(offsets[i], offset_size)]))

\* the byte sources handed to AWB for an archive the builder `self` wrote:
\* the archive; the same payloads under an offset table that holds the
\* running ends without rounding (header end, then plus each size); that
\* table with a first offset inside the tables; the archive cut one byte
\* short; with another magic; with an offset width or an ID width of 3
AwbSources(self, file) ==
    LET N == self.subfiles_count
        header_len == 16 + self.audioid_size * N + self.offset_size * (N + 1)
        ends == [i \in 1..(N + 1) |->
                    header_len + SeqSum([n \in 1..(i - 1) |-> Len(self.sunfiles[n])])]
    IN  {file,
         WithOffsetTable(file, self.audioid_size, self.offset_size, ends),
         WithOffsetTable(file, self.audioid_size, self.offset_size,
                         [ends EXCEPT ![1] = @ - 1]),
         SubSeq(file, 1, Len(file) - 1),
         [file EXCEPT ![1] = 0],
         [file EXCEPT ![6] = 3],
         [file EXCEPT ![7] = 3]}

\* AWBBuilder(subfiles, **config)
AWBBuilderWith(subfiles, config) ==
    AWBBuilder(subfiles, config.version, config.offset_size, config.audioid_size,
               config.offset_alignment, config.subkey, config.offset_mode)

InitAwb ==
    /\ pc = "awb_start"
    /\ call = <<>>
    /\ raised = ""
    /\ \E subfiles \in PayloadLists, config \in Configs :
           awb_builder = AWBBuilderWith(subfiles, config)
    /\ awb_file = None /\ awb_stream = None /\ awb = None
    /\ awb_extracted = None /\ awb_rebuilt = None
    /\ builder = None /\ data = None /\ stream = None /\ utf = None
    /\ rebuilt = None /\ reparsed = None /\ dict = None /\ extracted = None
    /\ parse_passes = 0

\* awb_builder.build(path): the file is left as written also when it raises
AwbBuild ==
    /\ pc = "awb_start"
    /\ awb_builder.st = "ok"
    /\ With(AWBBuilder_build(awb_builder), LAMBDA r :
           /\ awb_file' = r
           /\ raised' = Raised(r))
    /\ pc' = "awb_built"
    /\ UNCHANGED <<awb_builder, awb_stream, awb, awb_extracted, awb_rebuilt>>
    /\ UNCHANGED utfVars

\* AWB(path)
AwbOpen ==
    /\ pc = "awb_built"
    /\ awb_file.st = "ok"
    /\ \E source \in AwbSources(awb_builder, awb_file.data) :
           /\ awb_stream' = [st |-> "ok", data |-> source]
           /\ With(AWB(source), LAMBDA r :
                  /\ awb' = Returned(r)
                  /\ raised' = Raised(r))
    /\ pc' = "awb_opened"
    /\ UNCHANGED <<awb_builder, awb_file, awb_extracted, awb_rebuilt>>
    /\ UNCHANGED utfVars

\* awb.extract(dir)
AwbExtract ==
    /\ pc = "awb_opened"
    /\ awb.st = "ok"
    /\ awb_extracted' = [st |-> "ok", files |-> extract(awb)]
    /\ raised' = ""
    /\ pc' = "awb_extracted"
    /\ UNCHANGED <<awb_builder, awb_file, awb_stream, awb, awb_rebuilt>>
    /\ UNCHANGED utfVars

\* AWBBuilder(extracted files, same configuration).build(path)
AwbRebuild ==
    /\ pc = "awb_extracted"
    /\ LET files == awb_extracted.files
           again == AWBBuilderWith([i \in 1..Len(files) |-> files[i].data], awb_builder)
       IN  With(AWBBuilder_build(again), LAMBDA r :
               /\ awb_rebuilt' = r
               /\ raised' = Raised(r))
    /\ pc' = "awb_rebuilt"
    /\ UNCHANGED <<awb_builder, awb_file, awb_stream, awb, awb_extracted>>
    /\ UNCHANGED utfVars

NextAwb ==
    \/ AwbBuild
    \/ AwbOpen
    \/ AwbExtract
    \/ AwbRebuild

SpecAwb == InitAwb /\ [][NextAwb]_vars

(***************************************************************************)
(* Properties.  Readers of a built table's bytes, and comparisons of       *)
(* tables as value trees.                                                  *)
(***************************************************************************)
\* the values of a column: its constant, its rows, or none
Values(column) ==
    IF column.dataFlag = 3 THEN <<column.columnDataConstant>>
    ELSE IF column.dataFlag = 5 THEN column.columnDataRows
    ELSE <<>>

\* two columns are the same column: flag, type and name, then the values
SameColumn(c, d) ==
    /\ c.dataFlag = d.dataFlag
    /\ c.valueType = d.valueType
    /\ c.columnName = d.columnName
    /\ Values(c) = Values(d)

\* two tables (instances or builders) are the same value tree
SameTable(t, u) ==
    /\ t.table_name = u.table_name
    /\ t.version = u.version
    /\ t.rows_count = u.rows_count
    /\ t.columns_count = u.columns_count
    /\ Len(t.columns) = Len(u.columns)
    /\ \A i \in 1..Len(t.columns) : SameColumn(t.columns[i], u.columns[i])

\* the byte source handed to UTFTable is the builder's own output
OwnSource == data.st = "ok" /\ stream.st = "ok" /\ stream.data = data.data

\* a column the builder has an encoding for: a supported type and values in
\* the range of its format
Supported(column) ==
    /\ value_type_fc(column.valueType) # <<>>
    /\ \/ column.valueType \in {"COLUMN_TYPE_STRING", "COLUMN_TYPE_VLDATA"}
       \/ \A r \in 1..Len(Values(column)) :
              FormatAccepts(value_type_fc(column.valueType)[1], Values(column)[r])

\* the regions of a built table, by its header
RowsRegion(bytes) ==
    LET h == headerRead(bytes) IN SubSeq(bytes, h.rows_offset + 1, h.strings_offset)

StringsRegion(bytes) ==
    LET h == headerRead(bytes) IN SubSeq(bytes, h.strings_offset + 1, h.data_offset)

BlobsRegion(bytes) ==
    LET h == headerRead(bytes) IN SubSeq(bytes, h.data_offset + 1, h.table_size)

\* C1: for every table the builder accepts, with no blob alignment, UTFTable
\* constructs from the built bytes, utfParse succeeds, and the parse yields
\* the builder's table name, version, rows_count, columns_count and columns.
C1_BuildThenParse ==
    (pc \in {"opened", "parsed"} /\ OwnSource /\ builder.offset_alignment = <<>>)
        => /\ pc = "opened" => utf.st = "ok"
           /\ pc = "parsed" => raised = "" /\ SameTable(utf, builder)

\* C2: for every byte source that constructs and parses, the bytes built from
\* the parsed instance construct and parse again, to the same value tree.
C2_ParseBuildParse ==
    /\ (pc = "rebuilt" /\ utf.parsed) => rebuilt.st = "ok"
    /\ (pc = "reparsed" /\ utf.parsed) => raised = "" /\ SameTable(reparsed, utf)

\* C5: a table with rows_count = 0 builds (no blob alignment), whatever
\* supported columns it declares, with header row_width = 0 and an empty rows
\* region, and the built bytes parse back to the same table.
C5_ZeroRowsBuildsAndParses ==
    (/\ pc # "start"
     /\ builder.rows_count = 0
     /\ builder.offset_alignment = <<>>
     /\ \A i \in 1..Len(builder.columns) : Supported(builder.columns[i]))
        => /\ data.st = "ok"
           /\ headerRead(data.data).row_width = 0
           /\ RowsRegion(data.data) = <<>>
           /\ (pc = "opened" /\ OwnSource) => utf.st = "ok"
           /\ (pc = "parsed" /\ OwnSource) => raised = "" /\ SameTable(utf, builder)

\* the builder holds the minimum table: "T", version 1, no rows, no columns,
\* no blob alignment
MinimumTable ==
    /\ pc # "start"
    /\ builder.table_name = StrT /\ builder.version = 1
    /\ builder.rows_count = 0 /\ builder.columns = <<>>
    /\ builder.offset_alignment = <<>>

\* C8 (as amended): the minimum table builds to bytes that start with @UTF and
\* are 0x22 long (the 0x20-byte header and the two bytes "T" NUL), and parsing
\* them yields the same table.
C8_MinimumTable ==
    MinimumTable
        => /\ data.st = "ok"
           /\ IsUtfMagic(data.data)
           /\ Len(data.data) = 34
           /\ (pc = "opened" /\ OwnSource) => utf.st = "ok"
           /\ (pc = "parsed" /\ OwnSource) => raised = "" /\ SameTable(utf, builder)

\* the minimum table has been built, opened and parsed
C8_Witness == MinimumTable /\ pc = "parsed" /\ OwnSource /\ utf.parsed

\* C8 as stated: the minimum table builds to bytes of total size 0x21.
C8_MinimumTable_0x21 ==
    MinimumTable
        => /\ data.st = "ok"
           /\ IsUtfMagic(data.data)
           /\ Len(data.data) = 33
           /\ (pc = "opened" /\ OwnSource) => utf.st = "ok"
           /\ (pc = "parsed" /\ OwnSource) => raised = "" /\ SameTable(utf, builder)

\* UTFTable(bytes).utfParse() succeeds on both byte strings and yields the
\* same value tree
SameParse(x, y) ==
    /\ parse(x).st = "ok"
    /\ parse(y).st = "ok"
    /\ SameTable(parse(x), parse(y))

\* column e, extracted from dict column d, is the parsed column u again: a
\* nested-table column comes back as a blob that parses to the same table
ColumnBack(e, d, u) ==
    IF d.valueType = "COLUMN_TYPE_VLDATA_UTFTABLE"
    THEN /\ e.dataFlag = u.dataFlag
         /\ e.columnName = u.columnName
         /\ e.valueType = "COLUMN_TYPE_VLDATA"
         /\ u.valueType = "COLUMN_TYPE_VLDATA"
         /\ Len(Values(e)) = Len(Values(u))
         /\ \A r \in 1..Len(Values(e)) : SameParse(Values(e)[r], Values(u)[r])
    ELSE SameColumn(e, u)

\* C4: for every parsed table, utf2DictJsonRecursion and utf2DictJson return
\* a dict, and dataDictExtract on that dict yields the parsed columns, a
\* nested-table column coming back as a blob that parses to the same table.
C4_JsonBridgeRoundTrip ==
    /\ (pc = "dict" /\ utf.parsed) => raised = "" /\ dict.st = "ok"
    /\ pc = "extracted"
           => /\ raised = ""
              /\ extracted.st = "ok"
              /\ Len(extracted.columns) = Len(utf.columns)
              /\ \A i \in 1..Len(utf.columns) :
                     ColumnBack(extracted.columns[i], dict.dict.columns[i],
                                utf.columns[i])

\* the strings of a built table that build() sends through the string
\* branch, in emission order: per column its name, then its String constant
\* or its String rows
EmittedStrings(columns) ==
    Concat([i \in 1..Len(columns) |->
               <<columns[i].columnName>>
               \o (IF columns[i].valueType = "COLUMN_TYPE_STRING"
                   THEN Values(columns[i]) ELSE <<>>)])

\* how many NUL-terminated entries of a strings pool are the string
PoolCount(pool, string) ==
    LET entry == encode(string) \o <<0>>
    IN  Cardinality({i \in 1..Len(pool) :
                        /\ i = 1 \/ pool[i - 1] = 0
                        /\ i + Len(entry) - 1 <= Len(pool)
                        /\ SubSeq(pool, i, i + Len(entry) - 1) = entry})

\* C6: when a column name, a constant String or a String row value of a built
\* table equals the table name, the strings pool holds that string once.
C6_TableNameOnce ==
    (/\ pc # "start"
     /\ data.st = "ok"
     /\ \E i \in 1..Len(EmittedStrings(builder.columns)) :
            EmittedStrings(builder.columns)[i] = builder.table_name)
        => PoolCount(StringsRegion(data.data), builder.table_name) = 1

\* the encoded width a column adds to its schema entry (its constant) and to
\* every row (its row value)
ConstWidth(column) == IF column.dataFlag = 3 THEN value_size(column.valueType) ELSE 0

RowWidth(column) == IF column.dataFlag = 5 THEN value_size(column.valueType) ELSE 0

\* where the schema entry of column i begins, and where its row value begins
\* within a row
SchemaPos(columns, i) == 32 + SeqSum([j \in 1..(i - 1) |-> 5 + ConstWidth(columns[j])])

InRowPos(columns, i) == SeqSum([j \in 1..(i - 1) |-> RowWidth(columns[j])])

\* where value r of column i is written in the built bytes
ValuePos(bytes, columns, i, r) ==
    LET h == headerRead(bytes)
    IN  IF columns[i].dataFlag = 3 THEN SchemaPos(columns, i) + 5
        ELSE h.rows_offset + (r - 1) * h.row_width + InRowPos(columns, i)

\* the unsigned big-endian 32-bit number at a position of the bytes
U32At(bytes, pos) == UnsignedBE(SubSeq(bytes, pos + 1, pos + 4))

\* the occurrences of strings in a built table, in emission order, each with
\* the position where its pool offset is written
StringOccurrences(bytes, columns) ==
    Concat([i \in 1..Len(columns) |->
               <<[string |-> columns[i].columnName, pos |-> SchemaPos(columns, i) + 1]>>
               \o (IF columns[i].valueType = "COLUMN_TYPE_STRING"
                   THEN [r \in 1..Len(Values(columns[i])) |->
                            [string |-> Values(columns[i])[r],
                             pos |-> ValuePos(bytes, columns, i, r)]]
                   ELSE <<>>)])

\* the occurrences of blobs in a built table, in emission order, each with
\* the position where its (offset, size) pair is written
BlobOccurrences(bytes, columns) ==
    Concat([i \in 1..Len(columns) |->
               IF columns[i].valueType = "COLUMN_TYPE_VLDATA"
               THEN [r \in 1..Len(Values(columns[i])) |->
                        [body |-> Values(columns[i])[r],
                         pos |-> ValuePos(bytes, columns, i, r)]]
               ELSE <<>>])

\* a list without the repetitions of its elements, in first-occurrence order
RECURSIVE Distinct(_)
Distinct(list) ==
    IF Len(list) = 0 THEN <<>>
    ELSE LET front == Distinct(SubSeq(list, 1, Len(list) - 1))
             last == list[Len(list)]
         IN  IF \E i \in 1..Len(front) : front[i] = last THEN front
             ELSE Append(front, last)

\* the pool that holds the table name and then each listed string once,
\* NUL-terminated, and the offset of the k-th of them in it
PoolOf(table_name, strings) ==
    encode(table_name) \o <<0>>
    \o Concat([k \in 1..Len(strings) |-> encode(strings[k]) \o <<0>>])

PoolOffset(table_name, strings, k) ==
    Len(encode(table_name)) + 1
    + SeqSum([j \in 1..(k - 1) |-> Len(encode(strings[j])) + 1])

\* a blob body as it is appended under an alignment (<<>> for none)
Padded(body, al) ==
    IF al = <<>> THEN body ELSE body \o Zeros((al[1] - (Len(body) % al[1])) % al[1])

\* C7: in one build(), each distinct string among the column names, constant
\* Strings and String rows is appended to the strings pool once, at its first
\* occurrence in column order then row order (after the table name, which
\* build() writes first), and every occurrence is written as that offset;
\* every blob value is appended, so k blob values give k consecutive bodies
\* in emission order, equal or not.
C7_StringsOncePerBuild ==
    (pc = "built" /\ data.st = "ok")
        => LET bytes == data.data
               columns == builder.columns
               occ == StringOccurrences(bytes, columns)
               strings == Distinct([k \in 1..Len(occ) |-> occ[k].string])
               pool == StringsRegion(bytes)
               expected == PoolOf(builder.table_name, strings)
               blobs == BlobOccurrences(bytes, columns)
               bodies == [k \in 1..Len(blobs) |->
                             Padded(blobs[k].body, builder.offset_alignment)]
           IN  /\ Len(pool) >= Len(expected)
               /\ SubSeq(pool, 1, Len(expected)) = expected
               /\ \A i \in (Len(expected) + 1)..Len(pool) : pool[i] = 0
               /\ builder.offset_alignment = <<>> => pool = expected
               /\ \A k \in 1..Len(occ) :
                      \E d \in 1..Len(strings) :
                          /\ strings[d] = occ[k].string
                          /\ U32At(bytes, occ[k].pos)
                                 = PoolOffset(builder.table_name, strings, d)
               /\ BlobsRegion(bytes) = Concat(bodies)
               /\ \A k \in 1..Len(blobs) :
                      /\ U32At(bytes, blobs[k].pos)
                             = SeqSum([j \in 1..(k - 1) |-> Len(bodies[j])])
                      /\ U32At(bytes, blobs[k].pos + 4) = Len(bodies[k])

\* a table was built in which a String row value repeats and two blob rows
\* have equal bytes
C7_Witness ==
    /\ pc = "built" /\ data.st = "ok" /\ builder.rows_count >= 2
    /\ \E i, j \in 1..Len(builder.columns) :
           /\ builder.columns[i].dataFlag = 5
           /\ builder.columns[i].valueType = "COLUMN_TYPE_STRING"
           /\ builder.columns[i].columnDataRows[1] = builder.columns[i].columnDataRows[2]
           /\ builder.columns[j].dataFlag = 5
           /\ builder.columns[j].valueType = "COLUMN_TYPE_VLDATA"
           /\ builder.columns[j].columnDataRows[1] = builder.columns[j].columnDataRows[2]

\* the unsigned big-endian 16-bit number at a position of the bytes
U16At(bytes, pos) == UnsignedBE(SubSeq(bytes, pos + 1, pos + 2))

\* the header of the built bytes describes the emitted regions, but for
\* row_width: rows_offset, the rows region size, blobs_offset, table_size, the
\* four of them stored minus 8, and the two counts
HeaderDescribesRegions ==
    LET bytes == data.data
        columns == builder.columns
        h == headerRead(bytes)
        occ == StringOccurrences(bytes, columns)
        strings == Distinct([k \in 1..Len(occ) |-> occ[k].string])
    IN  /\ h.rows_offset = SchemaPos(columns, Len(columns) + 1)
        /\ h.strings_offset = h.rows_offset + builder.rows_count * h.row_width
        /\ h.data_offset >= h.strings_offset + Len(PoolOf(builder.table_name, strings))
        /\ builder.offset_alignment = <<>>
               => h.data_offset
                      = h.strings_offset + Len(PoolOf(builder.table_name, strings))
        /\ h.table_size = Len(bytes)
        /\ U32At(bytes, 4) = Len(bytes) - 8
        /\ U16At(bytes, 10) = h.rows_offset - 8
        /\ U32At(bytes, 12) = h.strings_offset - 8
        /\ U32At(bytes, 16) = h.data_offset - 8
        /\ h.columns_count = Len(columns)
        /\ h.rows_count = builder.rows_count

C10_BlobAlignment ==
    (pc = "built" /\ data.st = "ok" /\ builder.offset_alignment # <<>>)
        => LET bytes == data.data
               A == builder.offset_alignment[1]
               h == headerRead(bytes)
               blobs == BlobOccurrences(bytes, builder.columns)
           IN  /\ h.data_offset % A = 0
               /\ \A k \in 1..Len(blobs) :
                      LET offset == U32At(bytes, blobs[k].pos)
                          size == U32At(bytes, blobs[k].pos + 4)
                          body == blobs[k].body
                      IN  /\ size % A = 0
                          /\ size >= Len(body) /\ size - Len(body) < A
                          /\ offset % A = 0
                          /\ (h.data_offset + offset) % A = 0
                          /\ h.data_offset + offset + size <= Len(bytes)
                          /\ SubSeq(bytes, h.data_offset + offset + 1,
                                    h.data_offset + offset + size)
                                 = body \o Zeros(size - Len(body))

\* a table with a 17-byte blob was built under the alignment 0x20: the blob
\* got 15 bytes of padding
C10_Witness ==
    /\ pc = "built" /\ data.st = "ok" /\ builder.offset_alignment = <<32>>
    /\ \E i \in 1..Len(builder.columns) :
           /\ builder.columns[i].dataFlag = 3
           /\ builder.columns[i].valueType = "COLUMN_TYPE_VLDATA"
           /\ Len(builder.columns[i].columnDataConstant) = 17
           /\ U32At(data.data, SchemaPos(builder.columns, i) + 9) = 17 + 15

\* the byte source handed to AWB is the archive the builder wrote
OwnArchive == awb_stream.st = "ok" /\ awb_stream.data = awb_file.data

\* C3: AWB constructs from every archive AWBBuilder.build wrote, and building
\* the extracted payloads again with the same configuration writes a file
\* byte-for-byte equal to the archive.
C3_ExtractRebuildBitExact ==
    /\ (pc = "awb_opened" /\ OwnArchive) => awb.st = "ok"
    /\ (pc = "awb_rebuilt" /\ OwnArchive)
           => awb_rebuilt.st = "ok" /\ awb_rebuilt.data = awb_file.data

\* an archive of two payloads that needs padding was built under Start mode,
\* opened, extracted and built again
C3_Witness ==
    /\ pc = "awb_rebuilt" /\ OwnArchive
    /\ awb_builder.offset_mode = 1
    /\ awb_builder.offset_alignment = 32
    /\ awb_builder.subfiles_count = 2
    /\ Len(awb_builder.sunfiles[1]) = 5 /\ Len(awb_builder.sunfiles[2]) = 7
    /\ Len(awb_extracted.files) = 2

\* the constant blob columns of a parsed table at nesting depth d stand in the
\* dict's columns as the rule says: a nested table dict, tagged
\* COLUMN_TYPE_VLDATA_UTFTABLE, when the blob begins with @UTF and
\* d < depth_max, base64 text otherwise; and so do those of each nested table
RECURSIVE ConstantBlobsByRule(_, _, _, _)
ConstantBlobsByRule(columns, dict_columns, depth_max, d) ==
    /\ Len(dict_columns) = Len(columns)
    /\ \A i \in 1..Len(columns) :
           (columns[i].valueType = "COLUMN_TYPE_VLDATA" /\ columns[i].dataFlag = 3)
               => LET blob == columns[i].columnDataConstant
                      out == dict_columns[i]
                  IN  IF IsUtfMagic(blob) /\ d < depth_max
                      THEN /\ out.valueType = "COLUMN_TYPE_VLDATA_UTFTABLE"
                           /\ parse(blob).st = "ok"
                           /\ out.columnDataConstant.tableName = parse(blob).table_name
                           /\ ConstantBlobsByRule(parse(blob).columns,
                                                  out.columnDataConstant.columns,
                                                  depth_max, d + 1)
                      ELSE /\ out.valueType = "COLUMN_TYPE_VLDATA"
                           /\ out.columnDataConstant = b64encode(blob)

\* C11: in the dict utf2DictJsonRecursion(depth_max) returns, a constant blob
\* met at nesting depth d is a nested table tagged COLUMN_TYPE_VLDATA_UTFTABLE
\* if and only if it begins with @UTF and d < depth_max, and base64 text
\* otherwise (so depth_max = 0 keeps every blob raw and depth_max >= 1 opens
\* the first level); a top-level call with depth_max >= 0 never raises the
\* depth-exceeded error.
C11_NestedIffMagicAndDepth ==
    (pc = "dict" /\ Head(call) = "utf2DictJsonRecursion")
        => /\ raised # "current depth exceeds the maximum depth"
           /\ dict.st = "ok"
                  => ConstantBlobsByRule(utf.columns, dict.dict.columns, call[2], 0)

\* utf2DictJsonRecursion(1) returned a dict in which a constant blob is a
\* nested table (depth 0) whose own constant blob, though it begins with
\* @UTF, stayed base64 text (depth 1)
C11_Witness ==
    /\ pc = "dict" /\ call = <<"utf2DictJsonRecursion", 1>> /\ dict.st = "ok"
    /\ \E i \in 1..Len(dict.dict.columns) :
           /\ dict.dict.columns[i].valueType = "COLUMN_TYPE_VLDATA_UTFTABLE"
           /\ dict.dict.columns[i].dataFlag = 3
           /\ Len(dict.dict.columns[i].columnDataConstant.columns) = 1
           /\ LET inner == dict.dict.columns[i].columnDataConstant.columns[1]
              IN  /\ inner.valueType = "COLUMN_TYPE_VLDATA"
                  /\ IsUtfMagic(b64decode(inner.columnDataConstant).data)

\* the unsigned little-endian number in the `width` bytes at a position
ULEAt(bytes, pos, width) == UnsignedBE(Reverse(SubSeq(bytes, pos + 1, pos + width)))

\* the builder holds the archive of two payloads of 5 and 7 bytes with
\* offset_size 4, audioid_size 2 and alignment 0x20, under the given mode,
\* and has written it
TwoPayloads(offset_mode) ==
    /\ pc \in {"awb_built", "awb_opened", "awb_extracted", "awb_rebuilt"}
    /\ awb_builder.subfiles_count = 2
    /\ Len(awb_builder.sunfiles[1]) = 5 /\ Len(awb_builder.sunfiles[2]) = 7
    /\ awb_builder.offset_size = 4 /\ awb_builder.audioid_size = 2
    /\ awb_builder.offset_alignment = 32
    /\ awb_builder.offset_mode = offset_mode

\* the file of TwoPayloads(0): the payloads at 0x20 and 0x40, zeros between
\* them, size 0x47, and the offset table first, second, third
TwoPayloadsLastEnd(first, second, third) ==
    /\ awb_file.st = "ok"
    /\ Len(awb_file.data) = 71
    /\ ULEAt(awb_file.data, 20, 4) = first
    /\ ULEAt(awb_file.data, 24, 4) = second
    /\ ULEAt(awb_file.data, 28, 4) = third
    /\ SubSeq(awb_file.data, 33, 37) = awb_builder.sunfiles[1]
    /\ SubSeq(awb_file.data, 38, 64) = Zeros(27)
    /\ SubSeq(awb_file.data, 65, 71) = awb_builder.sunfiles[2]

\* C12 (as amended): the archive of two payloads of 5 and 7 bytes with
\* offset_size 4, audioid_size 2, alignment 0x20 and offset_mode 0 has the
\* offset table [0x20, 0x25, 0x47], the payloads at 0x20 and 0x40, and is
\* 0x47 bytes long, with no padding after the second payload.
C12_TwoEntriesLastEnd == TwoPayloads(0) => TwoPayloadsLastEnd(32, 37, 71)

\* that archive has been written
C12_Witness == TwoPayloads(0) /\ pc = "awb_built" /\ Len(awb_file.data) = 71

\* C12 as stated: the offset table is [0x20, 0x25, 0x2C].
C12_OffsetTable_0x2C == TwoPayloads(0) => TwoPayloadsLastEnd(32, 37, 44)

\* round_up(x, a): the smallest multiple of a that is not below x
RoundUp(x, a) == x + ((a - (x % a)) % a)

\* last_end[i] and start[i] (i from 0) as the layout rule gives them for a
\* header of header_len bytes, the payload sizes and the alignment a
RECURSIVE LastEndAt(_, _, _, _)
LastEndAt(header_len, sizes, a, i) ==
    IF i = 0 THEN header_len
    ELSE RoundUp(LastEndAt(header_len, sizes, a, i - 1), a) + sizes[i]

StartAt(header_len, sizes, a, i) == RoundUp(LastEndAt(header_len, sizes, a, i), a)

\* C13: the file AWBBuilder.build writes for N payloads follows the two
\* vectors last_end and start (N + 1 entries each): last_end[0] is the end of
\* the offset table, start[i] = round_up(last_end[i]), last_end[i+1] =
\* start[i] + size of payload i; payload i lies at start[i]; the offset table
\* holds last_end under offset_mode 0 and start under offset_mode 1; each
\* payload but the last is followed by zeros up to the next start, the last
\* one only under offset_mode 1; the file is last_end[N] long under mode 0
\* (N >= 1) and start[N] long under mode 1.
C13_BuildLayout ==
    (pc \in {"awb_built", "awb_opened", "awb_extracted", "awb_rebuilt"}
     /\ awb_file.st = "ok")
        => LET self == awb_builder
               N == self.subfiles_count
               sizes == [n \in 1..N |-> Len(self.sunfiles[n])]
               table == 16 + self.audioid_size * N
               header_len == table + self.offset_size * (N + 1)
               a == self.offset_alignment
               last_end(i) == LastEndAt(header_len, sizes, a, i)
               start(i) == StartAt(header_len, sizes, a, i)
               file == awb_file.data
           IN  /\ \A i \in 0..N :
                      ULEAt(file, table + self.offset_size * i, self.offset_size)
                          = IF self.offset_mode = 0 THEN last_end(i) ELSE start(i)
               /\ \A i \in 0..(N - 1) :
                      /\ SubSeq(file, start(i) + 1, last_end(i + 1)) = self.sunfiles[i + 1]
                      /\ (i < N - 1 \/ self.offset_mode = 1)
                             => SubSeq(file, last_end(i + 1) + 1, start(i + 1))
                                    = Zeros(start(i + 1) - last_end(i + 1))
               /\ SubSeq(file, header_len + 1, start(0)) = Zeros(start(0) - header_len)
               /\ (self.offset_mode = 0 /\ N >= 1) => Len(file) = last_end(N)
               /\ self.offset_mode = 1 => Len(file) = start(N)

\* the archive of payloads of 5 and 7 bytes was written under offset_mode 1:
\* offsets [0x20, 0x40, 0x60], 0x60 bytes
C13_Witness ==
    /\ TwoPayloads(1) /\ pc = "awb_built"
    /\ Len(awb_file.data) = 96
    /\ ULEAt(awb_file.data, 20, 4) = 32
    /\ ULEAt(awb_file.data, 24, 4) = 64
    /\ ULEAt(awb_file.data, 28, 4) = 96

\* C14: for every archive AWB constructed from, extract writes for entry i
\* the bytes [round_up(offsets[i]), offsets[i+1]) of the source, none when
\* the rounded start is not below offsets[i+1]; and the rounding of the parse
\* side is that of AWBBuilder.offsetAlignmentProcess.
C14_ExtractByteRange ==
    /\ (pc \in {"awb_opened", "awb_extracted", "awb_rebuilt"} /\ awb.st = "ok")
           => \A i \in 1..Len(awb.audio_offsets) :
                  /\ alignedStart(awb.offset_alignment, awb.audio_offsets[i])
                         = offsetAlignmentProcess(awb, awb.audio_offsets[i])
                  /\ alignedStart(awb.offset_alignment, awb.audio_offsets[i])
                         = RoundUp(awb.audio_offsets[i], awb.offset_alignment)
    /\ pc \in {"awb_extracted", "awb_rebuilt"}
           => /\ Len(awb_extracted.files) = awb.subfiles_count
              /\ \A i \in 1..awb.subfiles_count :
                     awb_extracted.files[i].data
                         = SubSeq(awb_stream.data,
                                  RoundUp(awb.audio_offsets[i], awb.offset_alignment) + 1,
                                  awb.audio_offsets[i + 1])

\* the messages of the errors AWBBuilder raises by its own checks
AWBBuilderErrors ==
    {"too many subfiles", "unsupported version", "unsupported offset size",
     "unsupported audio ID size", "unsupported offset alignment",
     "unsupported subkey", "unsupported offset mode"}

\* C15: with 2-byte offsets, an archive whose size (header, ID table, offset
\* table and aligned payloads) is above 0xFFFF makes AWBBuilder fail with an
\* error of its own checks, the one for an archive too large; and a build
\* that completes has a size that fits the width, so that no entry of its
\* offset table is truncated or wrapped.
C15_ArchiveTooLarge ==
    (pc = "awb_built" /\ awb_builder.offset_size = 2)
        => /\ Len(awb_file.data) > 65535
                  => (awb_file.st # "ok" /\ raised \in AWBBuilderErrors)
           /\ awb_file.st = "ok"
                  => \A i \in 0..awb_builder.subfiles_count :
                         ULEAt(awb_file.data,
                               16 + awb_builder.audioid_size * awb_builder.subfiles_count
                                  + 2 * i, 2)
                             = LET sizes == [n \in 1..awb_builder.subfiles_count |->
                                               Len(awb_builder.sunfiles[n])]
                                   header_len == 16 + (awb_builder.audioid_size + 2)
                                                        * awb_builder.subfiles_count + 2
                               IN  IF awb_builder.offset_mode = 0
                                   THEN LastEndAt(header_len, sizes,
                                                  awb_builder.offset_alignment, i)
                                   ELSE StartAt(header_len, sizes,
                                                awb_builder.offset_alignment, i)

\* C16: when AWB constructs an instance, the source starts with AFS2, its ID
\* width and its offset width are each 2 or 4, the position just after the
\* two tables is not above offsets[0] as the source holds it, and the source
\* is at least offsets[entries_count] long; the instance then has
\* entries_count IDs and entries_count + 1 offsets.  A construction that does
\* not meet these raises and leaves no instance.
C16_ConstructionConditions ==
    (pc = "awb_opened")
        => LET src == awb_stream.data
               offset_size == ULEAt(src, 5, 1)
               audioid_size == ULEAt(src, 6, 2)
               N == ULEAt(src, 8, 4)
               table == 16 + audioid_size * N
               tables_end == table + offset_size * (N + 1)
           IN  /\ awb.st = "ok"
                      => /\ SubSeq(src, 1, 4) = <<65, 70, 83, 50>>
                         /\ offset_size \in {2, 4} /\ audioid_size \in {2, 4}
                         /\ tables_end <= ULEAt(src, table, offset_size)
                         /\ Len(src) >= ULEAt(src, table + offset_size * N, offset_size)
                         /\ Len(awb.audioids) = N
                         /\ Len(awb.audio_offsets) = N + 1
                         /\ raised = ""
               /\ awb.st # "ok" => (awb = None /\ raised # "")

\* the archive of payloads of 5 and 7 bytes, cut one byte short, was refused
\* for its size
C16_Witness ==
    /\ TwoPayloads(0) /\ pc = "awb_opened"
    /\ awb_stream.data = SubSeq(awb_file.data, 1, Len(awb_file.data) - 1)
    /\ awb = None
    /\ raised = "awb file size should not be less than audio_offsets[-1]"

\* the four region conditions on the header of a byte source
RegionConditions(src) ==
    LET table_size == FieldAt(src, 4, 4) + 8
        rows_offset == FieldAt(src, 10, 2) + 8
        strings_offset == FieldAt(src, 12, 4) + 8
        blobs_offset == FieldAt(src, 16, 4) + 8
        table_name_offset == FieldAt(src, 20, 4)
        row_width == FieldAt(src, 26, 2)
        rows_count == FieldAt(src, 28, 4)
    IN  /\ rows_offset - 32 >= 0
        /\ strings_offset - rows_offset >= rows_count * row_width
        /\ blobs_offset - strings_offset >= table_name_offset + 1
        /\ table_size - blobs_offset >= 0

\* the errors UTFTable raises for a header that breaks a region condition
HeaderMalformed ==
    {"invalid schema size", "invalid rows size", "invalid strings size",
     "invalid data size", "strings offset out of bounds"}

\* C17: UTFTable constructs an instance only from a source whose header
\* meets the four region conditions (schema size >= 0, rows size >=
\* rows_count * row_width, strings size >= table_name_offset + 1, blobs size
\* >= 0); from any other source, the one whose strings region is exactly
\* table_name_offset long included, it raises one of its malformed-header
\* errors and no instance results.
C17_RegionConditions ==
    (pc = "opened")
        => /\ utf.st = "ok" => RegionConditions(stream.data)
           /\ ~RegionConditions(stream.data)
                  => (utf = None /\ raised \in HeaderMalformed)

\* a source whose strings region is exactly table_name_offset long was
\* refused by stringDataGet
C17_Witness ==
    /\ pc = "opened"
    /\ FieldAt(stream.data, 16, 4) - FieldAt(stream.data, 12, 4)
           = FieldAt(stream.data, 20, 4)
    /\ FieldAt(stream.data, 10, 2) >= 24
    /\ utf = None
    /\ raised = "strings offset out of bounds"

\* C18: a source whose first column has the type tag 0x0C (here with the
\* storage flag 1, so that the column holds no value) parses, the column read
\* as one of type COLUMN_TYPE_UINT128; and build() refuses a table whose
\* first column is of that type with the unsupported-value-type error.
C18_U128ParsesBuildRejects ==
    /\ (/\ pc = "parsed"
        /\ FieldAt(stream.data, 24, 2) >= 1
        /\ FieldAt(stream.data, 10, 2) + 8 - 32 >= 5
        /\ stream.data[33] = 1 * 16 + 12)
           => /\ raised = ""
              /\ utf.parsed
              /\ utf.columns[1].valueType = "COLUMN_TYPE_UINT128"
    /\ (/\ pc = "built"
        /\ builder.data_raw_dict.columnsCount >= 1
        /\ builder.data_raw_dict.columns[1].valueType = "COLUMN_TYPE_UINT128")
           => /\ data = None
              /\ raised = "unsupported value type"

\* C19: on one UTFTable instance parsed is False after construction; once it
\* is True it stays True, and no call (utfParse, utf2DictJson,
\* utf2DictJsonRecursion, UTFTableBuilder(utf)) makes another pass over the
\* source or changes columns: the pass runs at most once.
C19_ParseAtMostOnce ==
    [][/\ (pc = "built" /\ utf'.st = "ok") => ~utf'.parsed
       /\ (utf.st = "ok" /\ utf.parsed)
              => /\ utf'.st = "ok" /\ utf'.parsed
                 /\ utf'.columns = utf.columns
                 /\ parse_passes' = parse_passes]_vars

\* C20: when utfParse raises, the error is what the caller gets, parsed is
\* still False and the instance has no columns attribute; at every moment an
\* instance has columns exactly when its parsed is True.
C20_FailedParseStoresNothing ==
    /\ utf.st = "ok" => (("columns" \in DOMAIN utf) <=> utf.parsed)
    /\ (call = <<"utfParse">> /\ raised \notin {"", "hang"})
           => /\ utf.st = "ok"
              /\ ~utf.parsed
              /\ "columns" \notin DOMAIN utf
              /\ raised = utfParseColumns(utf).err

\* utfParse raised for the storage flag 7 of the first column
C20_Witness ==
    /\ pc = "parsed" /\ call = <<"utfParse">>
    /\ stream.data[33] \div 16 = 7
    /\ raised = "unsupported data flag"
    /\ ~utf.parsed

\* C21: no call that reads the pools fails to return: UTFTable, which reads
\* the table name, and utfParse end on every source; the NUL that ends the
\* table name lies inside the strings region; and a constant blob read for
\* the first column is exactly as long as the size stored for it.
C21_PoolReadsTerminate ==
    /\ pc \in {"opened", "parsed"} => raised # "hang"
    /\ (pc = "opened" /\ utf.st = "ok")
           => FirstNul(stream.data, utf.strings_offset + utf.name_offset_rtst)
                  <= utf.strings_offset + strings_size(utf)
    /\ (pc = "parsed" /\ utf.parsed /\ utf.columns_count >= 1 /\ stream.data[33] = 59)
           => Len(utf.columns[1].columnDataConstant) = FieldAt(stream.data, 41, 4)

\* a per-row blob column of a parsed table
PerRowBlob(column) == column.valueType = "COLUMN_TYPE_VLDATA" /\ column.dataFlag = 5

\* C22: utf2DictJsonRecursion converts every parsed table whose blob columns
\* are all per-row ones, without error, a table of no rows included.  Each
\* such column stands in the dict by the decision taken on its first row:
\* nested tables, tagged COLUMN_TYPE_VLDATA_UTFTABLE, for every row when the
\* first row begins with @UTF and depth_max > 0, base64 text for every row
\* otherwise; and with an empty row list when the table has no rows.
C22_PerRowBlobsByFirstRow ==
    (/\ pc = "dict" /\ Head(call) = "utf2DictJsonRecursion"
     /\ utf.parsed
     /\ \A i \in 1..Len(utf.columns) :
            utf.columns[i].valueType = "COLUMN_TYPE_VLDATA" => utf.columns[i].dataFlag = 5)
        => /\ raised = ""
           /\ dict.st = "ok"
           /\ Len(dict.dict.columns) = Len(utf.columns)
           /\ \A i \in 1..Len(utf.columns) :
                  PerRowBlob(utf.columns[i])
                      => LET rows == utf.columns[i].columnDataRows
                             out == dict.dict.columns[i]
                         IN  /\ Len(out.columnDataRows) = Len(rows)
                             /\ IF Len(rows) > 0 /\ IsUtfMagic(rows[1]) /\ 0 < call[2]
                                THEN /\ out.valueType = "COLUMN_TYPE_VLDATA_UTFTABLE"
                                     /\ \A k \in 1..Len(rows) :
                                            out.columnDataRows[k].tableName
                                                = parse(rows[k]).table_name
                                ELSE /\ out.valueType = "COLUMN_TYPE_VLDATA"
                                     /\ \A k \in 1..Len(rows) :
                                            out.columnDataRows[k] = b64encode(rows[k])

\* C23: for every payload list and configuration whose build completes, AWB
\* constructs from the archive written, the IDs read back are 0..N-1 in
\* order, and extract returns for entry i exactly the bytes of payload i
\* (same length, no pad bytes after them), under offset_mode 0 and 1 alike.
C23_BuildExtractRoundTrip ==
    /\ (pc = "awb_opened" /\ OwnArchive)
           => /\ awb.st = "ok"
              /\ awb.audioids = [i \in 1..awb_builder.subfiles_count |-> i - 1]
    /\ (pc = "awb_extracted" /\ OwnArchive)
           => /\ Len(awb_extracted.files) = awb_builder.subfiles_count
              /\ \A i \in 1..awb_builder.subfiles_count :
                     /\ awb_extracted.files[i].audioid = i - 1
                     /\ awb_extracted.files[i].data = awb_builder.sunfiles[i]

====
